---- MODULE Spec2Model ----
(***************************************************************************)
(* Model of the rapidus bytecode interpreter (src/src/vm.rs) and of its    *)
(* tracing JIT (src/src/jit.rs): hot-site counters, code generation over   *)
(* a bytecode region, guarded native entry of functions and loops, and     *)
(* the interpreter's opcode handlers the regions are built from.           *)
(*                                                                         *)
(* Bytecode is kept at byte offsets: an instruction of n bytes is one      *)
(* record (opcode and decoded operand) followed by n-1 operand bytes.      *)
(* Numbers are integers standing for the doubles the programs compute.     *)
(***************************************************************************)
EXTENDS Integers, Sequences, FiniteSets, TLC

\* ---------------------------------------------------------------- bounds
\* the longest argument list the main program passes
MaxArgc == 4

\* ------------------------------------------------------ program constants
MAX_FUNCTION_PARAMS == 3
FUNC_THRESHOLD == 5
LOOP_THRESHOLD == 7

\* ------------------------------------------------------------- Option<T>
None == <<>>
Some(x) == <<x>>
IsSome(o) == o # <<>>
Unwrap(o) == o[1]

\* ------------------------------------------------------------ vm::Value
\* ValueBase variants; v is always an integer (a number, 0/1 for a Bool,
\* an index of a heap record or of the string table).
Number(n) == [t |-> "Number", v |-> n]
Bool(b) == [t |-> "Bool", v |-> IF b THEN 1 ELSE 0]
String(i) == [t |-> "String", v |-> i]
Undefined == [t |-> "Undefined", v |-> 0]
Object(id) == [t |-> "Object", v |-> id]
Array(id) == [t |-> "Array", v |-> id]
\* a Function value: v is the FuncId, parent the parent link of the CallObject
\* the value embeds (0 for None)
Function(id) == [t |-> "Function", v |-> id, parent |-> 0]
BuiltinFunction(x) == [t |-> "BuiltinFunction", v |-> x]
Arguments == [t |-> "Arguments", v |-> 0]
Empty == [t |-> "Empty", v |-> 0]
\* Value::number(NAN)
NaN == [t |-> "NaN", v |-> 0]

\* jit::ValueType of a value, None for the kinds the JIT does not type
get_value_type(val) ==
  IF val.t \in {"Bool", "Number", "String"} THEN Some(val.t) ELSE None

\* ------------------------------------------------------- constant table
\* const_table.string: the names the opcodes refer to by index
ConstString == <<"a", "o", "zz", "i", "n", "t", "f", "g", "h", "lp", "lq",
                 "b", "m", "x", "y", "c", "w", "k",
                 "rec", "len2", "lenr", "al", "ap", "mk", "log",
                 "p", "q", "C", "D", "E", "lv",
                 "one", "two", "rc", "lo", "lc", "j">>
\* const_table.value: literals pushed by push_const (1: the string "x",
\* 2: the string "length", 3: the function literal inc, 4..: more strings)
ConstValue == <<String(1), String(2), Function(12), String(3), String(4), String(5),
                String(6), String(7), String(8)>>
\* the interned strings String(i) stands for
StringTable == <<"x", "length", "__proto__", "k", "zz", "prototype", "constructor",
                 "call">>
\* the index in const_table.value of the string literal str
StrId(str) == CHOOSE k \in 1..Len(ConstValue) :
                ConstValue[k].t = "String" /\ StringTable[ConstValue[k].v] = str

NameId(name) == CHOOSE k \in 1..Len(ConstString) : ConstString[k] = name

\* --------------------------------------------------------------- bytecode
Pad == [op |-> "PAD", arg |-> 0]
I1(op) == <<[op |-> op, arg |-> 0]>>
I2(op, n) == <<[op |-> op, arg |-> n], Pad>>
I5(op, n) == <<[op |-> op, arg |-> n], Pad, Pad, Pad, Pad>>
IName(op, name) == I5(op, NameId(name))

\* the instruction at byte offset pc (offsets count from 0)
At(iseq, pc) == iseq[pc + 1]

\* opcodes with a 4-byte operand, with a 1-byte operand, and without one
\* an argument list and a callee given by name, then CALL: the arguments are
\* pushed from the last to the first, so that `call` pops them first to last
RECURSIVE PushArgs(_)
PushArgs(names) ==
  IF names = <<>> THEN <<>>
  ELSE PushArgs(Tail(names)) \o IName("GET_NAME", Head(names))
ExprCall(fname, names) ==
  PushArgs(names) \o IName("GET_NAME", fname) \o I5("CALL", Len(names))

Ops5 == {"CONSTRUCT", "CREATE_OBJECT", "CREATE_ARRAY", "PUSH_INT32", "PUSH_CONST",
         "JMP_IF_FALSE", "JMP", "CALL", "GET_NAME", "SET_NAME", "DECL_VAR",
         "LOOP_START"}
Ops2 == {"PUSH_INT8"}
get_inst_size(op) == IF op \in Ops5 THEN 5 ELSE IF op \in Ops2 THEN 2 ELSE 1

\* function f(a) { o.x = a; if (a) return a + 1; return 2; }
IseqF ==
  I1("CREATE_CONTEXT")           \* 0
  \o IName("GET_NAME", "a")      \* 1
  \o IName("GET_NAME", "o")      \* 6
  \o I5("PUSH_CONST", 1)         \* 11
  \o I1("SET_MEMBER")            \* 16
  \o IName("GET_NAME", "a")      \* 17
  \o I5("JMP_IF_FALSE", 9)       \* 22 -> 36
  \o IName("GET_NAME", "a")      \* 27
  \o I2("PUSH_INT8", 1)          \* 32
  \o I1("ADD")                   \* 34
  \o I1("RETURN")                \* 35
  \o I2("PUSH_INT8", 2)          \* 36
  \o I1("RETURN")                \* 38

\* function g(a) { return undefined; }
IseqG ==
  I1("CREATE_CONTEXT")           \* 0
  \o I1("PUSH_UNDEFINED")        \* 1
  \o I1("RETURN")                \* 2

\* function h(a) { if (a < 0) return zz; return a; }   (zz is declared nowhere)
IseqH ==
  I1("CREATE_CONTEXT")           \* 0
  \o IName("GET_NAME", "a")      \* 1
  \o I2("PUSH_INT8", 0)          \* 6
  \o I1("LT")                    \* 8
  \o I5("JMP_IF_FALSE", 6)       \* 9 -> 20
  \o IName("GET_NAME", "zz")     \* 14
  \o I1("RETURN")                \* 19
  \o IName("GET_NAME", "a")      \* 20
  \o I1("RETURN")                \* 25

\* function lp(n, t) { var i = 0; while (i < n) { t; i = i + 1; } return i; }
IseqLp ==
  I1("CREATE_CONTEXT")           \* 0
  \o I2("PUSH_INT8", 0)          \* 1
  \o IName("DECL_VAR", "i")      \* 3
  \o I5("LOOP_START", 53)        \* 8   region [8, 53)
  \o IName("GET_NAME", "i")      \* 13
  \o IName("GET_NAME", "n")      \* 18
  \o I1("LT")                    \* 23
  \o I5("JMP_IF_FALSE", 24)      \* 24 -> 53
  \o IName("GET_NAME", "t")      \* 29
  \o I1("POP")                   \* 34
  \o IName("GET_NAME", "i")      \* 35
  \o I2("PUSH_INT8", 1)          \* 40
  \o I1("ADD")                   \* 42
  \o IName("SET_NAME", "i")      \* 43
  \o I5("JMP", 0 - 45)           \* 48 -> 8
  \o IName("GET_NAME", "i")      \* 53
  \o I1("RETURN")                \* 58

\* function lq(n) { var i = 0; while (i < n) { undefined; i = i + 1; } return i; }
IseqLq ==
  I1("CREATE_CONTEXT")           \* 0
  \o I2("PUSH_INT8", 0)          \* 1
  \o IName("DECL_VAR", "i")      \* 3
  \o I5("LOOP_START", 49)        \* 8   region [8, 49)
  \o IName("GET_NAME", "i")      \* 13
  \o IName("GET_NAME", "n")      \* 18
  \o I1("LT")                    \* 23
  \o I5("JMP_IF_FALSE", 20)      \* 24 -> 49
  \o I1("PUSH_UNDEFINED")        \* 29
  \o I1("POP")                   \* 30
  \o IName("GET_NAME", "i")      \* 31
  \o I2("PUSH_INT8", 1)          \* 36
  \o I1("ADD")                   \* 38
  \o IName("SET_NAME", "i")      \* 39
  \o I5("JMP", 0 - 41)           \* 44 -> 8
  \o IName("GET_NAME", "i")      \* 49
  \o I1("RETURN")                \* 54

\* function lv(n) { var i = 0; while (i < n) { var k = i; i = i + 1; } return i; }
IseqLv ==
  I1("CREATE_CONTEXT")           \* 0
  \o I2("PUSH_INT8", 0)          \* 1
  \o IName("DECL_VAR", "i")      \* 3
  \o I5("LOOP_START", 57)        \* 8   region [8, 57)
  \o IName("GET_NAME", "i")      \* 13
  \o IName("GET_NAME", "n")      \* 18
  \o I1("LT")                    \* 23
  \o I5("JMP_IF_FALSE", 28)      \* 24 -> 57
  \o IName("GET_NAME", "i")      \* 29
  \o IName("DECL_VAR", "k")      \* 34
  \o IName("GET_NAME", "i")      \* 39
  \o I2("PUSH_INT8", 1)          \* 44
  \o I1("ADD")                   \* 46
  \o IName("SET_NAME", "i")      \* 47
  \o I5("JMP", 0 - 49)           \* 52 -> 8
  \o IName("GET_NAME", "i")      \* 57
  \o I1("RETURN")                \* 62

\* function rec(n, m) { var t = n; if (n < 1) return t; rec(n + -1, m); return t; }
IseqRec ==
  I1("CREATE_CONTEXT")           \* 0
  \o IName("GET_NAME", "n")      \* 1
  \o IName("DECL_VAR", "t")      \* 6
  \o IName("GET_NAME", "n")      \* 11
  \o I2("PUSH_INT8", 1)          \* 16
  \o I1("LT")                    \* 18
  \o I5("JMP_IF_FALSE", 6)       \* 19 -> 30
  \o IName("GET_NAME", "t")      \* 24
  \o I1("RETURN")                \* 29
  \o IName("GET_NAME", "m")      \* 30
  \o IName("GET_NAME", "n")      \* 35
  \o I2("PUSH_INT8", -1)         \* 40
  \o I1("ADD")                   \* 42
  \o IName("GET_NAME", "rec")    \* 43
  \o I5("CALL", 2)               \* 48
  \o I1("POP")                   \* 53
  \o IName("GET_NAME", "t")      \* 54
  \o I1("RETURN")                \* 59

\* function len2(a, b) { return arguments.length; }
\* function lenr(a, ...b) { return arguments.length; }
IseqLen ==
  I1("CREATE_CONTEXT")           \* 0
  \o I1("PUSH_ARGUMENTS")        \* 1
  \o I5("PUSH_CONST", 2)         \* 2
  \o I1("GET_MEMBER")            \* 7
  \o I1("RETURN")                \* 8

\* function al(a, b) { arguments[0] = 7; b = 8; var a = arguments[1];
\*                     arguments[2] = 9; return arguments[2]; }
IseqAl ==
  I1("CREATE_CONTEXT")           \* 0
  \o I2("PUSH_INT8", 7)          \* 1
  \o I1("PUSH_ARGUMENTS")        \* 3
  \o I2("PUSH_INT8", 0)          \* 4
  \o I1("SET_MEMBER")            \* 6
  \o I2("PUSH_INT8", 8)          \* 7
  \o IName("SET_NAME", "b")      \* 9
  \o I1("PUSH_ARGUMENTS")        \* 14
  \o I2("PUSH_INT8", 1)          \* 15
  \o I1("GET_MEMBER")            \* 17
  \o IName("DECL_VAR", "a")      \* 18
  \o I2("PUSH_INT8", 9)          \* 23
  \o I1("PUSH_ARGUMENTS")        \* 25
  \o I2("PUSH_INT8", 2)          \* 26
  \o I1("SET_MEMBER")            \* 28
  \o I1("PUSH_ARGUMENTS")        \* 29
  \o I2("PUSH_INT8", 2)          \* 30
  \o I1("GET_MEMBER")            \* 32
  \o I1("RETURN")                \* 33

\* function ap(a, b) { return arguments[1]; }
IseqAp ==
  I1("CREATE_CONTEXT")           \* 0
  \o I1("PUSH_ARGUMENTS")        \* 1
  \o I2("PUSH_INT8", 1)          \* 2
  \o I1("GET_MEMBER")            \* 4
  \o I1("RETURN")                \* 5

\* function mk() { var c = 0; return function inc(x) { .. }; }
IseqMk ==
  I1("CREATE_CONTEXT")           \* 0
  \o I2("PUSH_INT8", 0)          \* 1
  \o IName("DECL_VAR", "c")      \* 3
  \o I5("PUSH_CONST", 3)         \* 8
  \o I1("SET_CUR_CALLOBJ")       \* 13
  \o I1("RETURN")                \* 14

\* function inc(x) { c = c + x; w = c; return c; }   (c is free, w is declared
\* nowhere)
IseqInc ==
  I1("CREATE_CONTEXT")           \* 0
  \o IName("GET_NAME", "c")      \* 1
  \o IName("GET_NAME", "x")      \* 6
  \o I1("ADD")                   \* 11
  \o IName("SET_NAME", "c")      \* 12
  \o IName("GET_NAME", "c")      \* 17
  \o IName("SET_NAME", "w")      \* 22
  \o IName("GET_NAME", "c")      \* 27
  \o I1("RETURN")                \* 32

\* The programs that exercise call: each is a function of two inputs x and y.
\* function dRec(x, y) { return rec(x, y); }
IseqDRec ==
  I1("CREATE_CONTEXT") \o ExprCall("rec", <<"x", "y">>) \o I1("RETURN")

\* function dArgs(x, y) { len2(); len2(x); len2(x, y); len2(x, y, x);
\*                         lenr(); lenr(x); lenr(x, y); return lenr(x, y, x); }
IseqDArgs ==
  I1("CREATE_CONTEXT")
  \o ExprCall("len2", <<>>) \o I1("POP")
  \o ExprCall("len2", <<"x">>) \o I1("POP")
  \o ExprCall("len2", <<"x", "y">>) \o I1("POP")
  \o ExprCall("len2", <<"x", "y", "x">>) \o I1("POP")
  \o ExprCall("lenr", <<>>) \o I1("POP")
  \o ExprCall("lenr", <<"x">>) \o I1("POP")
  \o ExprCall("lenr", <<"x", "y">>) \o I1("POP")
  \o ExprCall("lenr", <<"x", "y", "x">>) \o I1("RETURN")

\* function dAlias(x, y) { al(x, y); al(x, y, x); al(x); ap(x, y); return ap(x); }
IseqDAlias ==
  I1("CREATE_CONTEXT")
  \o ExprCall("al", <<"x", "y">>) \o I1("POP")
  \o ExprCall("al", <<"x", "y", "x">>) \o I1("POP")
  \o ExprCall("al", <<"x">>) \o I1("POP")
  \o ExprCall("ap", <<"x", "y">>) \o I1("POP")
  \o ExprCall("ap", <<"x">>) \o I1("RETURN")

\* function dClo(x, y) { var k = mk(); k(x); k(x); k(x); k(x); k(x); return k(y); }
IseqDClo ==
  I1("CREATE_CONTEXT")
  \o ExprCall("mk", <<>>) \o IName("DECL_VAR", "k")
  \o ExprCall("k", <<"x">>) \o I1("POP")
  \o ExprCall("k", <<"x">>) \o I1("POP")
  \o ExprCall("k", <<"x">>) \o I1("POP")
  \o ExprCall("k", <<"x">>) \o I1("POP")
  \o ExprCall("k", <<"x">>) \o I1("POP")
  \o ExprCall("k", <<"y">>) \o I1("RETURN")

\* function dNat(x, y) { y + f(x); f(x); f(x); f(x); f(x); y + f(x);
\*                        x + log(x, y); return h(zz); }
IseqDNat ==
  I1("CREATE_CONTEXT")
  \o IName("GET_NAME", "y") \o ExprCall("f", <<"x">>) \o I1("ADD") \o I1("POP")
  \o ExprCall("f", <<"x">>) \o I1("POP")
  \o ExprCall("f", <<"x">>) \o I1("POP")
  \o ExprCall("f", <<"x">>) \o I1("POP")
  \o ExprCall("f", <<"x">>) \o I1("POP")
  \o IName("GET_NAME", "y") \o ExprCall("f", <<"x">>) \o I1("ADD") \o I1("POP")
  \o IName("GET_NAME", "x") \o ExprCall("log", <<"x", "y">>) \o I1("ADD") \o I1("POP")
  \o ExprCall("h", <<"zz">>) \o I1("RETURN")

\* function dAp(x, y) { return ap(x); }   (b is bound nowhere)
IseqDAp == I1("CREATE_CONTEXT") \o ExprCall("ap", <<"x">>) \o I1("RETURN")
\* ---- programs over objects, arrays, constructors and comparisons
\* a string literal; obj.key; obj[n]; (val) stored in obj.key / obj[n]; new f(..)
Str(str) == I5("PUSH_CONST", StrId(str))
GetMem(obj, key) == IName("GET_NAME", obj) \o key \o I1("GET_MEMBER")
SetMem(val, obj, key) == val \o IName("GET_NAME", obj) \o key \o I1("SET_MEMBER")
ExprNew(fname, args) == args \o IName("GET_NAME", fname) \o I5("CONSTRUCT", 1)

\* function C(a) { this.x = a }
IseqC ==
  I1("CREATE_CONTEXT")
  \o IName("GET_NAME", "a") \o I1("PUSH_THIS") \o Str("x") \o I1("SET_MEMBER")
  \o I1("PUSH_UNDEFINED") \o I1("RETURN")
\* function D(a) { return a }
IseqD == I1("CREATE_CONTEXT") \o IName("GET_NAME", "a") \o I1("RETURN")
\* function E(a) { return a < 1 }
IseqE ==
  I1("CREATE_CONTEXT") \o IName("GET_NAME", "a") \o I2("PUSH_INT8", 1) \o I1("LT")
  \o I1("RETURN")

\* function dNew(x, y) { new C(x); new D(x); new D(log); new D(C); new D([x]);
\*   var p = new C(y); p.x; p.constructor; p.zz; C.prototype; C.call;
\*   log.prototype; return new E(x); }
IseqDNew ==
  I1("CREATE_CONTEXT")
  \o ExprNew("C", IName("GET_NAME", "x")) \o I1("POP")
  \o ExprNew("D", IName("GET_NAME", "x")) \o I1("POP")
  \o ExprNew("D", IName("GET_NAME", "log")) \o I1("POP")
  \o ExprNew("D", IName("GET_NAME", "C")) \o I1("POP")
  \o ExprNew("D", IName("GET_NAME", "x") \o I5("CREATE_ARRAY", 1)) \o I1("POP")
  \o ExprNew("C", IName("GET_NAME", "y")) \o IName("DECL_VAR", "p")
  \o GetMem("p", Str("x")) \o I1("POP")
  \o GetMem("p", Str("constructor")) \o I1("POP")
  \o GetMem("p", Str("zz")) \o I1("POP")
  \o GetMem("C", Str("prototype")) \o I1("POP")
  \o GetMem("C", Str("call")) \o I1("POP")
  \o GetMem("log", Str("prototype")) \o I1("POP")
  \o ExprNew("E", IName("GET_NAME", "x")) \o I1("RETURN")

\* function dProto(x, y) { var p = {k: x}; var q = {}; q.__proto__ = p; q.k;
\*   q.zz; p.__proto__ = y; q.zz; p.__proto__ = q; return q.zz; }
IseqDProto ==
  I1("CREATE_CONTEXT")
  \o IName("GET_NAME", "x") \o Str("k") \o I5("CREATE_OBJECT", 1) \o IName("DECL_VAR", "p")
  \o I5("CREATE_OBJECT", 0) \o IName("DECL_VAR", "q")
  \o SetMem(IName("GET_NAME", "p"), "q", Str("__proto__"))
  \o GetMem("q", Str("k")) \o I1("POP")
  \o GetMem("q", Str("zz")) \o I1("POP")
  \o SetMem(IName("GET_NAME", "y"), "p", Str("__proto__"))
  \o GetMem("q", Str("zz")) \o I1("POP")
  \o SetMem(IName("GET_NAME", "q"), "p", Str("__proto__"))
  \o GetMem("q", Str("zz")) \o I1("RETURN")

\* function dArr(x, y) { var p = [y, x]; p[3] = x; p[2]; p[0]; p[5]; p[1] = 9;
\*   p[1]; p[x] = y; p[1]; p.length; p.length = 1; p[2] = y; p[1]; p.length;
\*   p.__proto__; p.zz; p.__proto__ = x; return p[3]; }
IseqDArr ==
  I1("CREATE_CONTEXT")
  \o IName("GET_NAME", "x") \o IName("GET_NAME", "y") \o I5("CREATE_ARRAY", 2)
  \o IName("DECL_VAR", "p")
  \o SetMem(IName("GET_NAME", "x"), "p", I2("PUSH_INT8", 3))
  \o GetMem("p", I2("PUSH_INT8", 2)) \o I1("POP")
  \o GetMem("p", I2("PUSH_INT8", 0)) \o I1("POP")
  \o GetMem("p", I2("PUSH_INT8", 5)) \o I1("POP")
  \o SetMem(I2("PUSH_INT8", 9), "p", I2("PUSH_INT8", 1))
  \o GetMem("p", I2("PUSH_INT8", 1)) \o I1("POP")
  \o SetMem(IName("GET_NAME", "y"), "p", IName("GET_NAME", "x"))
  \o GetMem("p", I2("PUSH_INT8", 1)) \o I1("POP")
  \o GetMem("p", Str("length")) \o I1("POP")
  \o SetMem(I2("PUSH_INT8", 1), "p", Str("length"))
  \o SetMem(IName("GET_NAME", "y"), "p", I2("PUSH_INT8", 2))
  \o GetMem("p", I2("PUSH_INT8", 1)) \o I1("POP")
  \o GetMem("p", Str("length")) \o I1("POP")
  \o GetMem("p", Str("__proto__")) \o I1("POP")
  \o GetMem("p", Str("zz")) \o I1("POP")
  \o SetMem(IName("GET_NAME", "x"), "p", Str("__proto__"))
  \o GetMem("p", I2("PUSH_INT8", 3)) \o I1("RETURN")

\* function dGet(x, y) { x[-1]; x[y]; return y[D]; }
IseqDGet ==
  I1("CREATE_CONTEXT")
  \o GetMem("x", I2("PUSH_INT8", 0 - 1)) \o I1("POP")
  \o GetMem("x", IName("GET_NAME", "y")) \o I1("POP")
  \o GetMem("y", IName("GET_NAME", "D")) \o I1("RETURN")

\* function dCmp(x, y) { return x op y }, one for each comparison opcode
CmpOps == <<"EQ", "NE", "SEQ", "SNE", "LT", "LE", "GT", "GE">>
IseqDCmp(op) ==
  I1("CREATE_CONTEXT") \o IName("GET_NAME", "x") \o IName("GET_NAME", "y") \o I1(op)
  \o I1("RETURN")

\* The programs with a call to a user function inside a compiled region.
\* function one(a) { return a + 1; }
IseqOne ==
  I1("CREATE_CONTEXT")           \* 0
  \o IName("GET_NAME", "a")      \* 1
  \o I2("PUSH_INT8", 1)          \* 6
  \o I1("ADD")                   \* 8
  \o I1("RETURN")                \* 9

\* function two(a) { return one(a) + 1; }
IseqTwo ==
  I1("CREATE_CONTEXT")           \* 0
  \o ExprCall("one", <<"a">>)    \* 1, 6, 11
  \o I2("PUSH_INT8", 1)          \* 16
  \o I1("ADD")                   \* 18
  \o I1("RETURN")                \* 19

\* function rc(a) { if (a < 1) return 0; return rc(0) + 1; }
IseqRc ==
  I1("CREATE_CONTEXT")           \* 0
  \o IName("GET_NAME", "a")      \* 1
  \o I2("PUSH_INT8", 1)          \* 6
  \o I1("LT")                    \* 8
  \o I5("JMP_IF_FALSE", 3)       \* 9 -> 17
  \o I2("PUSH_INT8", 0)          \* 14
  \o I1("RETURN")                \* 16
  \o I2("PUSH_INT8", 0)          \* 17
  \o IName("GET_NAME", "rc")     \* 19
  \o I5("CALL", 1)               \* 24
  \o I2("PUSH_INT8", 1)          \* 29
  \o I1("ADD")                   \* 31
  \o I1("RETURN")                \* 32

\* function (n) { var i = 0; var <extra> = 0 ...;
\*               while (i < n) { callee(i); i = i + 1; } return i; }
\* The loop starts at 8 + 7 * Len(extra).
RECURSIVE Decls(_)
Decls(names) ==
  IF names = <<>> THEN <<>>
  ELSE I2("PUSH_INT8", 0) \o IName("DECL_VAR", Head(names)) \o Decls(Tail(names))
IseqLoopCall(extra, callee) ==
  I1("CREATE_CONTEXT")                               \* 0
  \o Decls(<<"i">> \o extra)                         \* 1 ..
  \o I5("LOOP_START", 8 + 7 * Len(extra) + 55)       \* bgn  region [bgn, bgn + 55)
  \o IName("GET_NAME", "i")                          \* bgn + 5
  \o IName("GET_NAME", "n")                          \* bgn + 10
  \o I1("LT")                                        \* bgn + 15
  \o I5("JMP_IF_FALSE", 34)                          \* bgn + 16 -> bgn + 55
  \o ExprCall(callee, <<"i">>)                       \* bgn + 21, 26, 31
  \o I1("POP")                                       \* bgn + 36
  \o IName("GET_NAME", "i")                          \* bgn + 37
  \o I2("PUSH_INT8", 1)                              \* bgn + 42
  \o I1("ADD")                                       \* bgn + 44
  \o IName("SET_NAME", "i")                          \* bgn + 45
  \o I5("JMP", 0 - 55)                               \* bgn + 50 -> bgn
  \o IName("GET_NAME", "i")                          \* bgn + 55
  \o I1("RETURN")                                    \* bgn + 60
\* lo calls one in a loop that starts at 8; lc calls E, whose FuncId is 22, in
\* a loop that starts at 22
IseqLo == IseqLoopCall(<<>>, "one")
IseqLc == IseqLoopCall(<<"j", "k">>, "E")

\* The Function values of the programs: FuncId -> (bytecode, formal parameters
\* as (name, is_rest)).  FuncId 0 is the main program.
FuncIds == 1..5 \cup {19, 21}
\* the functions the programs of the call machinery declare, and the programs
CallFuncIds == {1} \cup 6..11
Drivers == 13..18
\* the constructors C, D, E and the programs over objects and comparisons
ObjFuncIds == 20..22
ObjDrivers == 23..33 \cup {39}
\* one, two, rc, lo, lc
NestFuncIds == 34..38
FuncIseq(id) ==
  CASE id = 1 -> IseqF [] id = 2 -> IseqG [] id = 3 -> IseqH
    [] id = 4 -> IseqLp [] id = 5 -> IseqLq
    [] id = 6 -> IseqRec [] id \in {7, 8} -> IseqLen [] id = 9 -> IseqAl
    [] id = 10 -> IseqAp [] id = 11 -> IseqMk [] id = 12 -> IseqInc
    [] id = 13 -> IseqDRec [] id = 14 -> IseqDArgs [] id = 15 -> IseqDAlias
    [] id = 16 -> IseqDClo [] id = 17 -> IseqDNat [] id = 18 -> IseqDAp
    [] id = 19 -> IseqLv
    [] id = 20 -> IseqC [] id = 21 -> IseqD [] id = 22 -> IseqE
    [] id = 23 -> IseqDNew [] id = 24 -> IseqDProto [] id = 25 -> IseqDArr
    [] id \in 26..33 -> IseqDCmp(CmpOps[id - 25])
    [] id = 34 -> IseqOne [] id = 35 -> IseqTwo [] id = 36 -> IseqRc
    [] id = 37 -> IseqLo [] id = 38 -> IseqLc
    [] id = 39 -> IseqDGet
FuncParams(id) ==
  CASE id = 4 -> << <<"n", FALSE>>, <<"t", FALSE>> >>
    [] id \in {5, 19, 37, 38} -> << <<"n", FALSE>> >>
    [] id = 6 -> << <<"n", FALSE>>, <<"m", FALSE>> >>
    [] id \in {7, 9, 10} -> << <<"a", FALSE>>, <<"b", FALSE>> >>
    [] id = 8 -> << <<"a", FALSE>>, <<"b", TRUE>> >>
    [] id = 11 -> <<>>
    [] id = 12 -> << <<"x", FALSE>> >>
    [] id \in Drivers \cup ObjDrivers -> << <<"x", FALSE>>, <<"y", FALSE>> >>
    [] OTHER -> << <<"a", FALSE>> >>
FuncName(id) ==
  CASE id = 19 -> "lv" [] id = 21 -> "D" [] id = 22 -> "E"
    [] id \in NestFuncIds -> <<"one", "two", "rc", "lo", "lc">>[id - 33]
    [] OTHER -> <<"f", "g", "h", "lp", "lq", "rec", "len2", "lenr", "al", "ap", "mk">>[id]
\* the function a program declares under the name, if any
NamedIds == 1..11 \cup {19, 22} \cup NestFuncIds
IsFuncName(name) == \E id \in NamedIds : FuncName(id) = name
FuncByName(name) == CHOOSE id \in NamedIds : FuncName(id) = name

\* ------------------------------------------------------------- heap maps
EmptyMap == [x \in {} |-> Undefined]
Put(m, k, v) == [x \in DOMAIN m \cup {k} |-> IF x = k THEN v ELSE m[x]]
Has(m, k) == k \in DOMAIN m
\* gc::new: the record is stored under the first free handle
\* a handle that may be one already in use
NewId_reusing(heap) == IF DOMAIN heap = {} THEN 1 ELSE CHOOSE k \in DOMAIN heap : TRUE
NewId(heap) == CHOOSE k \in 1..(Cardinality(DOMAIN heap) + 1) : k \notin DOMAIN heap

\* ----------------------------------------------------------- CallObject
\* A scope record; parent is 0 for None.  The global record is handle 1.
GlobalScope == 1
\* this is Undefined until construct sets it (the this of the global record
\* and the this a Function value carries are not modelled)
CallObject(vals, params, parent) ==
  [vals |-> vals, params |-> params, arg_rest_vals |-> <<>>, parent |-> parent,
   this |-> Undefined]

\* a lookup that reads the root record when the given one does not define
\* the name
get_value_skipping_parents(callobjs, cid, name) ==
  IF Has(callobjs[cid].vals, name) THEN Some(callobjs[cid].vals[name])
  ELSE IF Has(callobjs[GlobalScope].vals, name) THEN Some(callobjs[GlobalScope].vals[name])
  ELSE None

RECURSIVE get_value(_, _, _)
get_value(callobjs, cid, name) ==
  IF Has(callobjs[cid].vals, name) THEN Some(callobjs[cid].vals[name])
  ELSE IF callobjs[cid].parent # 0 THEN get_value(callobjs, callobjs[cid].parent, name)
  ELSE None  \* Err(RuntimeError::Reference)

set_value(callobjs, cid, name, val) ==
  [callobjs EXCEPT ![cid].vals = Put(@, name, val)]

\* an assignment that writes the given record when it does not define the name
set_value_if_exist_local(callobjs, cid, name, val) ==
  [callobjs EXCEPT ![cid].vals = Put(@, name, val)]

RECURSIVE set_value_if_exist(_, _, _, _)
set_value_if_exist(callobjs, cid, name, val) ==
  IF Has(callobjs[cid].vals, name) THEN set_value(callobjs, cid, name, val)
  ELSE IF callobjs[cid].parent # 0
       THEN set_value_if_exist(callobjs, callobjs[cid].parent, name, val)
  ELSE set_value(callobjs, cid, name, val)

get_parameter_nth_name(co, n) ==
  IF n < Len(co.params) THEN Some(co.params[n + 1][1]) ELSE None

\* arguments[n]: a formal parameter by its name, or the rest list; the result
\* of the getter is None for the Err of get_value
get_arguments_nth_value(callobjs, cid, n) ==
  LET co == callobjs[cid]
  IN IF n < Len(co.params) THEN get_value(callobjs, cid, co.params[n + 1][1])
     ELSE IF n - Len(co.params) >= Len(co.arg_rest_vals) THEN Some(Undefined)
     ELSE Some(co.arg_rest_vals[n - Len(co.params) + 1])

\* a setter that writes the rest list only and never a formal
set_arguments_nth_value_rest_only(callobjs, cid, n, val) ==
  LET co == callobjs[cid]
  IN IF n < Len(co.params) \/ n - Len(co.params) >= Len(co.arg_rest_vals) THEN callobjs
     ELSE [callobjs EXCEPT ![cid].arg_rest_vals[n - Len(co.params) + 1] = val]

set_arguments_nth_value(callobjs, cid, n, val) ==
  LET co == callobjs[cid]
  IN IF n < Len(co.params) THEN set_value(callobjs, cid, co.params[n + 1][1], val)
     ELSE IF n - Len(co.params) >= Len(co.arg_rest_vals) THEN callobjs
     ELSE [callobjs EXCEPT ![cid].arg_rest_vals[n - Len(co.params) + 1] = val]

get_arguments_length(co) == Len(co.params) + Len(co.arg_rest_vals)

\* ValueBase::to_string of a property key
to_string(val) ==
  CASE val.t = "String" -> StringTable[val.v]
    [] val.t = "Undefined" -> "undefined"
    [] val.t = "Bool" -> IF val.v = 1 THEN "true" ELSE "false"
    [] val.t = "Object" -> "[object Object]"
    [] OTHER -> "number"

\* ----------------------------------------------------- property maps
\* The property map of a value is named by a reference: <<"obj", h>> is the
\* map objs[h], <<"ary", h>> the auxiliary map of the ArrayValue arrays[h].
\* The map of a Function or BuiltinFunction is made once with the value
\* (new_value_function, Value::builtin_function) and shared by its copies,
\* so its handle is a function of the id; so is that of its prototype object
\* and of the object its __proto__ holds.
FuncObj(fv) == (IF fv.t = "Function" THEN 100 ELSE 400) + fv.v
FuncPrototype(fv) == FuncObj(fv) + 100
FuncProto(fv) == FuncObj(fv) + 200
HasMap(val) == val.t \in {"Function", "BuiltinFunction", "Object", "Array"}
MapRef(val) ==
  CASE val.t = "Array" -> <<"ary", val.v>>
    [] val.t = "Object" -> <<"obj", val.v>>
    [] OTHER -> <<"obj", FuncObj(val)>>
MapAt(objs, arrays, ref) == IF ref[1] = "ary" THEN arrays[ref[2]].obj ELSE objs[ref[2]]

\* the maps new_value_function makes for the function value fv
new_value_function(fv) ==
  (FuncObj(fv) :> (("prototype" :> Object(FuncPrototype(fv)))
                   @@ ("__proto__" :> Object(FuncProto(fv)))))
  @@ (FuncPrototype(fv) :> ("constructor" :> fv))
  @@ (FuncProto(fv) :> (("apply" :> BuiltinFunction(6)) @@ ("call" :> BuiltinFunction(7))))
\* the maps Value::builtin_function makes
builtin_function_with_obj_and_prototype(fv) ==
  (FuncObj(fv) :> (("prototype" :> Object(FuncPrototype(fv)))
                   @@ ("__proto__" :> Object(FuncProto(fv)))))
  @@ (FuncPrototype(fv) :> EmptyMap)
  @@ (FuncProto(fv) :> (("apply" :> BuiltinFunction(6)) @@ ("call" :> BuiltinFunction(7))))

\* ArrayValue::new, and the shared ARRAY_PROTOTYPE (an ArrayValue itself, with
\* the builtins push, pop, map and the constructor Array in its map)
ArrayPrototype == 0
ArrayValue_without_proto(arr) == [elems |-> arr, length |-> Len(arr), obj |-> EmptyMap]
ArrayValue(arr) ==
  [elems |-> arr, length |-> Len(arr), obj |-> ("__proto__" :> Array(ArrayPrototype))]
ARRAY_PROTOTYPE ==
  [elems |-> <<>>, length |-> 0,
   obj |-> (("push" :> BuiltinFunction(2)) @@ ("pop" :> BuiltinFunction(3))
            @@ ("map" :> BuiltinFunction(4)) @@ ("constructor" :> BuiltinFunction(5)))]

\* obj_find_val on the map ref: Some(value), or None when the recursion does
\* not return.  The source recurses once per __proto__ link with no other
\* exit; more links than there are maps means a map is visited twice, and
\* then the walk repeats for ever (fuel counts the maps not yet visited).
obj_find_val_own_map(objs, arrays, ref, key, fuel) ==
  LET obj == MapAt(objs, arrays, ref)
  IN IF Has(obj, key) THEN Some(obj[key]) ELSE Some(Undefined)
RECURSIVE obj_find_val(_, _, _, _, _)
obj_find_val(objs, arrays, ref, key, fuel) ==
  LET obj == MapAt(objs, arrays, ref)
  IN IF Has(obj, key) THEN Some(obj[key])
     ELSE IF Has(obj, "__proto__") /\ HasMap(obj["__proto__"])
          THEN IF fuel = 0 THEN None
               ELSE obj_find_val(objs, arrays, MapRef(obj["__proto__"]), key, fuel - 1)
     ELSE Some(Undefined)
HeapSize(s) == Cardinality(DOMAIN s.objs) + Cardinality(DOMAIN s.arrays)

\* ------------------------------------------------------------- VM state
\* A state of the VM and of its TracingJit as one record s:
\*   stack, scope, pc, history        VMState
\*   cur_func_id                      VM
\*   callobjs, objs, arrays           the gc heap: scope records, property maps,
\*                                    the elements of the ArrayValues
\*   count, func_info, loop_info,
\*   function_return_types            TracingJit
\*   frames                           the call_function activations whose do_run
\*                                    has not returned (id, save_id)
\*   status, msg                      "ok", an error kind returned to run, or
\*                                    "panic" when the process aborted; the
\*                                    message of the error
\*   last, gen_calls                  history: the latest hot-site entry and the
\*                                    number of code generations per site
\*   prev, calls                      history: the opcode and the state of the
\*                                    latest step; the `call`s that have not
\*                                    returned
Top(s) == s.stack[Len(s.stack)]
PopN(stk, n) == SubSeq(stk, 1, Len(stk) - n)
CurScope(s) == s.scope[Len(s.scope)]
CurIseq(s) == FuncIseq(s.cur_func_id)
CurInst(s) == At(CurIseq(s), s.pc)
Fail(s, kind) == [s EXCEPT !.status = kind]

\* ------------------------------------------------------- opcode handlers
create_context(s) == [s EXCEPT !.pc = @ + 1]

push_int8(s) ==
  [s EXCEPT !.pc = @ + 2, !.stack = Append(@, Number(CurInst(s).arg))]

push_const(s) ==
  [s EXCEPT !.pc = @ + 5, !.stack = Append(@, ConstValue[CurInst(s).arg])]

push_undefined(s) == [s EXCEPT !.pc = @ + 1, !.stack = Append(@, Undefined)]

add(s) ==
  LET rhs == s.stack[Len(s.stack)]
      lhs == s.stack[Len(s.stack) - 1]
      res == CASE lhs.t = "Number" /\ rhs.t = "Number" -> Number(lhs.v + rhs.v)
               [] lhs.t = "Bool" /\ rhs.t = "Number" -> Number(rhs.v + lhs.v)
               [] lhs.t = "Number" /\ rhs.t = "Bool" -> Number(lhs.v + rhs.v)
               [] lhs.t = "Undefined" \/ rhs.t = "Undefined" -> NaN
               [] OTHER -> String(0)  \* concatenation of the string forms
  IN [s EXCEPT !.pc = @ + 1, !.stack = Append(PopN(@, 2), res)]

lt(s) ==
  LET rhs == s.stack[Len(s.stack)]
      lhs == s.stack[Len(s.stack) - 1]
  IN IF (lhs.t = "Number" /\ rhs.t = "Number") \/ (lhs.t = "String" /\ rhs.t = "String")
     THEN [s EXCEPT !.pc = @ + 1, !.stack = Append(PopN(@, 2), Bool(lhs.v < rhs.v))]
     ELSE Fail([s EXCEPT !.pc = @ + 1, !.stack = PopN(@, 2)], "Unimplemented")

\* set_member on an Array: set_by_idx grows length and pads the backing
\* store with Empty; None when the store is indexed beyond its end (panic).
\* (A String key that is the decimal form of an index is not in StringTable.)
PadTo(elems, n) == elems \o [i \in 1..(n - Len(elems)) |-> Empty]
set_by_idx_keeping_length(ary, n, val) ==
  Some([ary EXCEPT !.elems = [PadTo(@, n + 1) EXCEPT ![n + 1] = val]])
\* variant: set_by_idx growing length without padding the backing store
set_by_idx_without_padding(ary, n, val) ==
  IF n + 1 > Len(ary.elems) THEN Some([ary EXCEPT !.length = n + 1])
  ELSE Some([ary EXCEPT !.length = IF n >= @ THEN n + 1 ELSE @, !.elems[n + 1] = val])
set_by_idx(ary, n, val) ==
  LET grown == IF n >= ary.length
               THEN [ary EXCEPT !.length = n + 1, !.elems = PadTo(@, n + 1)]
               ELSE ary
  IN IF n + 1 > Len(grown.elems) THEN None
     ELSE Some([grown EXCEPT !.elems[n + 1] = val])
set_member_array(ary, member, val) ==
  CASE member.t = "Number" /\ member.v >= 0 -> set_by_idx(ary, member.v, val)
    [] member.t = "String" /\ StringTable[member.v] = "length" ->
         IF val.t = "Number" /\ val.v >= 0
         THEN Some([ary EXCEPT !.length = val.v, !.elems = PadTo(@, val.v + 1)])
         ELSE Some(ary)
    [] OTHER -> Some([ary EXCEPT !.obj = Put(@, to_string(member), val)])

\* set_member (a String parent does not occur in the programs of this model)
set_member(s) ==
  LET member == s.stack[Len(s.stack)]
      parent == s.stack[Len(s.stack) - 1]
      val == s.stack[Len(s.stack) - 2]
      s1 == [s EXCEPT !.pc = @ + 1, !.stack = PopN(@, 3)]
  IN CASE parent.t \in {"Object", "Function"} ->
            [s1 EXCEPT !.objs[MapRef(parent)[2]] = Put(@, to_string(member), val)]
       [] parent.t = "Array" ->
            LET ary == set_member_array(s.arrays[parent.v], member, val)
            IN IF IsSome(ary) THEN [s1 EXCEPT !.arrays[parent.v] = Unwrap(ary)]
               ELSE Fail(s1, "panic")
       [] parent.t = "Arguments" /\ member.t = "Number" ->  \* n as usize: below 0 is 0
            [s1 EXCEPT !.callobjs = set_arguments_nth_value(@, CurScope(s),
                                      IF member.v < 0 THEN 0 ELSE member.v, val)]
       [] OTHER -> s1

\* Value::get_property (None: the process aborted, in the unwrap of an Err
\* or in a lookup that does not return); a String parent does not occur
\* the kinds of value ValueBase::to_string is implemented for
Printable == {"Undefined", "Bool", "Number", "String", "Array", "Object"}
property_of_simple(s, parent, property) ==
  IF property.t \notin Printable THEN None  \* unimplemented!()
  ELSE obj_find_val(s.objs, s.arrays, MapRef(parent), to_string(property), HeapSize(s))
\* the character at index n of a String (n as usize: below 0 is 0), its
\* length, Undefined for another key.  (The one String the programs index is
\* "x", and its one character is that string.)
property_of_string(parent, property) ==
  CASE property.t = "Number" ->
         IF (IF property.v < 0 THEN 0 ELSE property.v) >= Len(StringTable[parent.v])
         THEN None  \* nth(n).unwrap()
         ELSE Some(String(parent.v))
    [] property.t = "String" /\ StringTable[property.v] = "length" ->
         Some(Number(Len(StringTable[parent.v])))
    [] OTHER -> Some(Undefined)
property_of_array(s, parent, property) ==
  LET ary == s.arrays[parent.v]
  IN CASE property.t = "Number" /\ property.v >= 0 ->
            IF property.v >= ary.length THEN Some(Undefined)
            ELSE IF property.v + 1 > Len(ary.elems) THEN None
            ELSE IF ary.elems[property.v + 1] = Empty THEN Some(Undefined)
            ELSE Some(ary.elems[property.v + 1])
       [] property.t = "String" /\ StringTable[property.v] = "length" ->
            Some(Number(ary.length))
       [] OTHER -> property_of_simple(s, parent, property)
property_of_arguments(callobjs, cid, property) ==
  CASE property.t = "Number" /\ property.v >= 0 ->
         get_arguments_nth_value(callobjs, cid, property.v)
    [] property.t = "String" /\ property.v \in DOMAIN StringTable
       /\ StringTable[property.v] = "length" ->
         Some(Number(get_arguments_length(callobjs[cid])))
    [] OTHER -> Some(Undefined)

get_property(s, parent, property) ==
  CASE parent.t = "Arguments" -> property_of_arguments(s.callobjs, CurScope(s), property)
    [] parent.t \in {"Object", "Function", "BuiltinFunction"} ->
         property_of_simple(s, parent, property)
    [] parent.t = "Array" -> property_of_array(s, parent, property)
    [] parent.t = "String" -> property_of_string(parent, property)
    [] OTHER -> Some(Undefined)

GotMember(s1, val) ==
  IF IsSome(val) THEN [s1 EXCEPT !.stack = Append(@, Unwrap(val))] ELSE Fail(s1, "panic")

get_member(s) ==
  GotMember([s EXCEPT !.pc = @ + 1, !.stack = PopN(@, 2)],
            get_property(s, s.stack[Len(s.stack) - 1], s.stack[Len(s.stack)]))

push_arguments(s) == [s EXCEPT !.pc = @ + 1, !.stack = Append(@, Arguments)]

push_this(s) ==
  [s EXCEPT !.pc = @ + 1, !.stack = Append(@, s.callobjs[CurScope(s)].this)]

\* create_object: len pairs are popped, each a String name above its value;
\* a name popped later replaces an earlier one (a name that is no String is
\* unreachable!()).  The collection that follows frees nothing reachable.
create_object(s) ==
  LET len == CurInst(s).arg
      L == Len(s.stack)
      name(i) == s.stack[L - 2 * (i - 1)]
      val(i) == s.stack[L - 2 * (i - 1) - 1]
      last(k) == CHOOSE i \in 1..len :
                   /\ StringTable[name(i).v] = k
                   /\ \A j \in 1..len : StringTable[name(j).v] = k => j <= i
      map == [k \in {StringTable[name(i).v] : i \in 1..len} |-> val(last(k))]
      s1 == [s EXCEPT !.pc = @ + 5, !.stack = PopN(@, 2 * len)]
  IN IF \E i \in 1..len : name(i).t # "String" THEN Fail(s1, "panic")
     ELSE [s1 EXCEPT !.objs = Put(@, NewId(s.objs), map),
                     !.stack = Append(@, Object(NewId(s.objs)))]

\* create_array: the first value popped is element 0
create_array(s) ==
  LET len == CurInst(s).arg
      arr == [i \in 1..len |-> s.stack[Len(s.stack) - (i - 1)]]
  IN [s EXCEPT !.pc = @ + 5,
               !.arrays = Put(@, NewId(s.arrays), ArrayValue(arr)),
               !.stack = Append(PopN(@, len), Array(NewId(s.arrays)))]

\* eq, ne, seq, sne, lt, le, gt, ge: one body, the operator apart
compare(s, op) ==
  LET rhs == s.stack[Len(s.stack)]
      lhs == s.stack[Len(s.stack) - 1]
      rel == CASE op \in {"EQ", "SEQ"} -> lhs.v = rhs.v
               [] op \in {"NE", "SNE"} -> lhs.v # rhs.v
               [] op = "LT" -> lhs.v < rhs.v
               [] op = "LE" -> lhs.v <= rhs.v
               [] op = "GT" -> lhs.v > rhs.v
               [] op = "GE" -> lhs.v >= rhs.v
  IN IF (lhs.t = "Number" /\ rhs.t = "Number") \/ (lhs.t = "String" /\ rhs.t = "String")
     THEN [s EXCEPT !.pc = @ + 1, !.stack = Append(PopN(@, 2), Bool(rel))]
     ELSE Fail([s EXCEPT !.pc = @ + 1, !.stack = PopN(@, 2)], "Unimplemented")

\* a closure that captures the global record whatever scope is executing
set_cur_callobj_global(s) ==
  IF s.stack # <<>> /\ Top(s).t = "Function"
  THEN [s EXCEPT !.pc = @ + 1, !.stack[Len(s.stack)].parent = GlobalScope]
  ELSE [s EXCEPT !.pc = @ + 1]

set_cur_callobj(s) ==
  IF s.stack # <<>> /\ Top(s).t = "Function"
  THEN [s EXCEPT !.pc = @ + 1, !.stack[Len(s.stack)].parent = CurScope(s)]
  ELSE [s EXCEPT !.pc = @ + 1]

jmp(s) == [s EXCEPT !.pc = @ + 5 + CurInst(s).arg]

jmp_if_false(s) ==
  LET cond == Top(s)
  IN [s EXCEPT !.stack = PopN(@, 1),
               !.pc = IF cond = Bool(FALSE) THEN @ + 5 + CurInst(s).arg ELSE @ + 5]

pop(s) == [s EXCEPT !.pc = @ + 1, !.stack = PopN(@, 1)]

\* the message of the RuntimeError::Reference get_value returns, in its pieces
ReferenceError(name) == <<"reference error: '", name, "' is not defined">>

get_name(s) ==
  LET name == ConstString[CurInst(s).arg]
      val == get_value(s.callobjs, CurScope(s), name)
  IN IF IsSome(val)
     THEN [s EXCEPT !.pc = @ + 5, !.stack = Append(@, Unwrap(val))]
     ELSE Fail([s EXCEPT !.pc = @ + 5, !.msg = ReferenceError(name)], "Reference")

\* (a Function value assigned here also gets its `this` rebound; the model's
\* Function values carry no `this`)
set_name(s) ==
  LET name == ConstString[CurInst(s).arg]
  IN [s EXCEPT !.pc = @ + 5, !.stack = PopN(@, 1),
               !.callobjs = set_value_if_exist(@, CurScope(s), name, Top(s))]

\* a declaration that assigns through the parent chain
decl_var_assigning(s) ==
  LET name == ConstString[CurInst(s).arg]
  IN [s EXCEPT !.pc = @ + 5, !.stack = PopN(@, 1),
               !.callobjs = set_value_if_exist(@, CurScope(s), name, Top(s))]

decl_var(s) ==
  LET name == ConstString[CurInst(s).arg]
  IN [s EXCEPT !.pc = @ + 5, !.stack = PopN(@, 1),
               !.callobjs = set_value(@, CurScope(s), name, Top(s))]

\* ----------------------------------------------------------- TracingJit
\* count is keyed by UniquePosition (func_id, pc); an absent key reads as 0
UniquePosition(id, pos) == <<id, pos>>
Count(count, site) == IF Has(count, site) THEN count[site] ELSE 0
\* variant: a function site counts as hot one call early
func_is_called_enough_times_early(count, id, pos) ==
  Count(count, UniquePosition(id, pos)) >= FUNC_THRESHOLD - 1

func_is_called_enough_times(count, id, pos) ==
  Count(count, UniquePosition(id, pos)) >= FUNC_THRESHOLD
loop_is_called_enough_times(count, id, pos) ==
  Count(count, UniquePosition(id, pos)) >= LOOP_THRESHOLD
\* variant: an entry is counted twice
inc_count_twice(count, id, pos) ==
  Put(count, UniquePosition(id, pos), Count(count, UniquePosition(id, pos)) + 2)

inc_count(count, id, pos) ==
  Put(count, UniquePosition(id, pos), Count(count, UniquePosition(id, pos)) + 1)

\* FuncInfo::new / LoopInfo::new
NewFuncInfo == [func_addr |-> None, llvm_func |-> None, cannot_jit |-> FALSE]
NewLoopInfo == [raw_func |-> None, llvm_func |-> None, local_vars |-> <<>>,
                cannot_jit |-> FALSE]
\* entry(k).or_insert(new)
OrInsert(m, k, new) == IF Has(m, k) THEN m ELSE Put(m, k, new)

\* ValueType::to_llvmty: the machine type of a typed value
to_llvmty(ty) == CASE ty = "Number" -> "f64" [] ty = "Bool" -> "i1" [] ty = "String" -> "ptr"

\* --------------------------------------------------------------- gen_body
\* Code generation is modelled by what decides its outcome: the pass over the
\* region with its compile-time stack of (machine type, Option<vm value>) and
\* the environment of named cells.  The outcome is "Ok", "Err" (the Err(())
\* of try_opt!/try_stack!/the default arm) or "Panic" (an unwrap on None/Err).
CVal(k) == [k |-> k, vm |-> None]
CObj(k, val) == [k |-> k, vm |-> Some(val)]
\* an entry that is a generated function: f describes it (a function entry
\* by func_id, argc and ret, a loop function by bgn and end)
CFn(f) == [k |-> "fn", vm |-> None, f |-> f]
\* LLVMBuildCall of the entry callee with the entries args: whether the call
\* passes LLVMVerifyFunction (the callee is a function of as many double
\* parameters as there are arguments, each a double)
CallVerifies(callee, args) ==
  /\ callee.k = "fn" /\ "argc" \in DOMAIN callee.f
  /\ callee.f.argc = Len(args)
  /\ \A i \in 1..Len(args) : args[i].k = "f64"
\* try_stack!(stack.pop()) succeeds on a top entry without a vm value
TryStack(stk, n) ==
  Len(stk) >= n /\ \A i \in 1..n : stk[Len(stk) + 1 - i].vm = None

\* the n top entries are doubles
AllDoubles(stk, n) == \A i \in 1..n : stk[Len(stk) + 1 - i].k = "f64"

\* first pass: the destinations of JMP and JMP_IF_FALSE in [pc, end)
RECURSIVE Labels(_, _, _, _)
Labels(iseq, pc, end, is_func_jit) ==
  IF pc >= end THEN {}
  ELSE LET inst == At(iseq, pc)
       IN IF inst.op = "END" \/ (inst.op = "CREATE_CONTEXT" /\ is_func_jit) THEN {}
          ELSE IF inst.op \in {"JMP", "JMP_IF_FALSE"}
               THEN {pc + 5 + inst.arg} \cup Labels(iseq, pc + 5, end, is_func_jit)
          ELSE Labels(iseq, pc + get_inst_size(inst.op), end, is_func_jit)

BinaryOps == {"ADD", "SUB", "MUL"}
CompareOps == {"LT", "GT", "LE", "GE", "EQ", "NE"}
\* opcodes gen_body steps over without generating anything
Skipped5 == {"LOOP_START", "CONSTRUCT", "CREATE_OBJECT", "CREATE_ARRAY"}
Skipped1 == {"PUSH_THIS", "PUSH_ARGUMENTS", "SET_MEMBER"}
\* opcodes of the model's programs that reach the default arm `_ => Err(())`
DefaultArm == {"PUSH_UNDEFINED", "LNOT"}

\* GET_NAME of a name outside env: the value bound in the scope decides
GenGetNameOuter(callobjs, cid, func_info, func_id, func, name) ==
  LET val == get_value(callobjs, cid, name)
  IN IF ~IsSome(val) THEN [res |-> "Panic", e |-> CVal("")]  \* unwrap of Err
     ELSE LET w == Unwrap(val)
          IN CASE w.t = "Function" /\ w.v = func_id -> [res |-> "Ok", e |-> CFn(func)]
               [] w.t = "Function" /\ w.v # func_id ->
                    IF Has(func_info, w.v) /\ IsSome(func_info[w.v].llvm_func)
                    THEN [res |-> "Ok", e |-> CFn(Unwrap(func_info[w.v].llvm_func))]
                    ELSE [res |-> "Err", e |-> CVal("")]
               [] w.t = "Object" -> [res |-> "Ok", e |-> CObj("null", w)]
               [] OTHER -> [res |-> "Err", e |-> CVal("")]

\* PUSH_CONST by the kind of the constant
GenPushConst(func_info, func_id, func, is_func_jit, w) ==
  CASE w.t = "Bool" -> [res |-> "Ok", e |-> CVal("i1")]
    [] w.t = "Number" -> [res |-> "Ok", e |-> CVal("f64")]
    [] w.t = "Function" /\ is_func_jit /\ w.v = func_id -> [res |-> "Ok", e |-> CFn(func)]
    [] w.t = "Function" /\ ~(is_func_jit /\ w.v = func_id) ->
         IF Has(func_info, w.v) /\ IsSome(func_info[w.v].llvm_func)
         THEN [res |-> "Ok", e |-> CFn(Unwrap(func_info[w.v].llvm_func))]
         ELSE [res |-> "Err", e |-> CVal("")]
    [] w.t = "String" -> [res |-> "Ok", e |-> CObj("ptr", w)]
    [] w.t = "Object" -> [res |-> "Ok", e |-> CObj("null", w)]
    [] OTHER -> [res |-> "Err", e |-> CVal("")]

\* second pass over [pc, end); env maps a name to the machine type of its
\* cell, func is the function being generated (self.cur_func)
RECURSIVE GenPass(_, _, _, _, _, _, _, _, _, _, _, _)
GenPass(iseq, callobjs, cid, func_info, func_id, func, end, is_func_jit, labels, pc, stk, env) ==
  IF pc >= end THEN "Ok"
  ELSE
  LET inst == At(iseq, pc)
      op == inst.op
      Go(npc, nstk, nenv) ==
        GenPass(iseq, callobjs, cid, func_info, func_id, func, end, is_func_jit, labels,
                npc, nstk, nenv)
  IN CASE op \in {"END", "CREATE_CONTEXT"} -> "Ok"
       [] op \in Skipped5 -> Go(pc + 5, stk, env)
       [] op = "JMP_IF_FALSE" ->
            IF pc + 5 + inst.arg \notin labels THEN "Err"
            ELSE IF ~TryStack(stk, 1) THEN "Err"
            ELSE Go(pc + 5, PopN(stk, 1), env)
       [] op = "JMP" ->
            IF pc + 5 + inst.arg \notin labels THEN "Err" ELSE Go(pc + 5, stk, env)
       \* a floating-point instruction over an operand that is no double does
       \* not pass LLVMVerifyFunction, whose failure action aborts the process
       [] op \in BinaryOps ->
            IF ~TryStack(stk, 2) THEN "Err"
            ELSE IF ~AllDoubles(stk, 2) THEN "Panic"
            ELSE Go(pc + 1, Append(PopN(stk, 2), CVal("f64")), env)
       [] op \in CompareOps ->
            IF ~TryStack(stk, 2) THEN "Err"
            ELSE IF ~AllDoubles(stk, 2) THEN "Panic"
            ELSE Go(pc + 1, Append(PopN(stk, 2), CVal("i1")), env)
       [] op = "GET_NAME" ->
            LET name == ConstString[inst.arg]
                r == GenGetNameOuter(callobjs, cid, func_info, func_id, func, name)
            IN IF Has(env, name) THEN Go(pc + 5, Append(stk, CVal(env[name])), env)
               ELSE IF r.res # "Ok" THEN r.res
               ELSE Go(pc + 5, Append(stk, r.e), env)
       [] op = "SET_NAME" ->
            IF ~TryStack(stk, 1) THEN "Err"
            ELSE IF ~Has(env, ConstString[inst.arg]) THEN "Err"
            ELSE Go(pc + 5, PopN(stk, 1), env)
       [] op = "DECL_VAR" ->
            \* declare_local_var: a double cell, unless the name has a cell
            LET name == ConstString[inst.arg]
                nenv == IF Has(env, name) THEN env ELSE Put(env, name, "f64")
            IN IF ~TryStack(stk, 1) THEN "Err" ELSE Go(pc + 5, PopN(stk, 1), nenv)
       [] op = "PUSH_CONST" ->
            LET r == GenPushConst(func_info, func_id, func, is_func_jit,
                                  ConstValue[inst.arg])
            IN IF r.res # "Ok" THEN r.res ELSE Go(pc + 5, Append(stk, r.e), env)
       [] op = "CALL" ->
            \* the callee is popped, then the arguments; a callee with a vm
            \* value is called as a builtin, which a String or an Object is
            \* not; any other is the operand of LLVMBuildCall, and a call
            \* that does not fit the callee's type fails LLVMVerifyFunction
            LET argc == inst.arg
                callee == stk[Len(stk)]
                args == [i \in 1..argc |-> stk[Len(stk) - i]]
            IN IF stk = <<>> THEN "Err"
               ELSE IF Len(stk) < argc + 1 THEN "Err"
               ELSE IF IsSome(callee.vm) THEN "Err"
               ELSE IF ~CallVerifies(callee, args) THEN "Panic"
               ELSE Go(pc + 5, Append(PopN(stk, argc + 1),
                                      CVal(to_llvmty(callee.f.ret))), env)
       [] op = "PUSH_INT8" -> Go(pc + 2, Append(stk, CVal("f64")), env)
       [] op = "PUSH_INT32" -> Go(pc + 5, Append(stk, CVal("f64")), env)
       [] op \in {"PUSH_TRUE", "PUSH_FALSE"} -> Go(pc + 1, Append(stk, CVal("i1")), env)
       [] op \in Skipped1 -> Go(pc + 1, stk, env)
       [] op = "POP" -> Go(pc + 1, IF stk = <<>> THEN stk ELSE PopN(stk, 1), env)
       [] op = "DOUBLE" ->
            IF stk = <<>> THEN "Panic"  \* stack.last().unwrap()
            ELSE Go(pc + 1, Append(stk, stk[Len(stk)]), env)
       [] op = "RETURN" /\ is_func_jit ->
            IF ~TryStack(stk, 1) THEN "Err" ELSE Go(pc + 1, PopN(stk, 1), env)
       [] op = "RETURN" /\ ~is_func_jit -> "Err"
       [] op \in DefaultArm -> "Err"

\* gen_body over [bgn, end) with an empty compile-time stack.  (For a loop,
\* gen_code_for_loop passes bgn as func_id as well.)
gen_body(iseq, callobjs, cid, func_info, func_id, func, bgn, end, is_func_jit, env) ==
  GenPass(iseq, callobjs, cid, func_info, func_id, func, end, is_func_jit,
          Labels(iseq, bgn, end, is_func_jit), bgn, <<>>, env)

\* gen_code_for_func: Ok carries the generated function, described by what
\* its behaviour depends on (the site, the arity and return type it was
\* generated for)
GenResult(body, ok) == IF body # "Ok" THEN [res |-> body] ELSE ok

\* the function gen_code_for_func adds to the module: as many double
\* parameters as the call has arguments, and the recorded return type, a
\* double when none is recorded
NewFunc(types, func_id, argc) ==
  [func_id |-> func_id, argc |-> argc,
   ret |-> IF Has(types, func_id) THEN types[func_id] ELSE "Number"]

gen_code_for_func(s, iseq, cid, func_id, argc) ==
  IF argc > MAX_FUNCTION_PARAMS THEN [res |-> "Err"]
  \* get_parameter_nth_name(i).unwrap() for i in 0..argc
  ELSE IF argc > Len(s.callobjs[cid].params) THEN [res |-> "Panic"]
  ELSE GenResult(
         gen_body(iseq, s.callobjs, cid, s.func_info, func_id,
                  NewFunc(s.function_return_types, func_id, argc), 1, Len(iseq), TRUE,
                  [name \in {s.callobjs[cid].params[i][1] : i \in 1..argc} |-> "f64"]),
         [res |-> "Ok", func |-> NewFunc(s.function_return_types, func_id, argc)])

\* can_jit: the result f is the native entry to call, gen tells whether code
\* generation ran; a panic leaves status = "panic"

\* variant: the generated function is returned but not stored
CanJitGenerated_NotStored(s, id, g) ==
  CASE g.res = "Panic" -> [s |-> Fail(s, "panic"), f |-> None, gen |-> TRUE]
    [] g.res = "Err" ->
         [s |-> [s EXCEPT !.func_info[id].cannot_jit = TRUE], f |-> None, gen |-> TRUE]
    [] g.res = "Ok" -> [s |-> s, f |-> Some(g.func), gen |-> TRUE]

CanJitGenerated(s, id, g) ==
  CASE g.res = "Panic" -> [s |-> Fail(s, "panic"), f |-> None, gen |-> TRUE]
    [] g.res = "Err" ->
         [s |-> [s EXCEPT !.func_info[id].cannot_jit = TRUE], f |-> None, gen |-> TRUE]
    [] g.res = "Ok" ->
         [s |-> [s EXCEPT !.func_info[id].func_addr = Some(g.func),
                          !.func_info[id].llvm_func = Some(g.func)],
          f |-> Some(g.func), gen |-> TRUE]

\* variant: can_jit without the test of cannot_jit
CanJitHot_IgnoringMark(s, id, iseq, cid, argc) ==
  IF IsSome(s.func_info[id].func_addr)
  THEN [s |-> s, f |-> s.func_info[id].func_addr, gen |-> FALSE]
  ELSE CanJitGenerated(s, id, gen_code_for_func(s, iseq, cid, id, argc))

\* can_jit once the site is hot and its FuncInfo exists
CanJitHot(s, id, iseq, cid, argc) ==
  IF s.func_info[id].cannot_jit THEN [s |-> s, f |-> None, gen |-> FALSE]
  ELSE IF IsSome(s.func_info[id].func_addr)
       THEN [s |-> s, f |-> s.func_info[id].func_addr, gen |-> FALSE]
  ELSE CanJitGenerated(s, id, gen_code_for_func(s, iseq, cid, id, argc))

can_jit(s, id, iseq, cid, argc) ==
  IF ~func_is_called_enough_times(s.count, id, 0)
  THEN [s |-> [s EXCEPT !.count = inc_count(@, id, 0)], f |-> None, gen |-> FALSE]
  ELSE CanJitHot([s EXCEPT !.func_info = OrInsert(@, id, NewFuncInfo)], id, iseq, cid, argc)

record_function_return_type(types, func_id, val) ==
  IF IsSome(get_value_type(val)) THEN Put(types, func_id, Unwrap(get_value_type(val)))
  ELSE types

\* ------------------------------------------------------ generated code
\* What the code gen_body emits computes: machine values (type k, payload
\* v) on an evaluation stack, named cells, and the jumps between the blocks.
\* The result is a returned value (RETURN of a function), or the position
\* a loop function returns to the interpreter.
MVal(k, v) == [k |-> k, v |-> v]
B2I(b) == IF b THEN 1 ELSE 0
Arith(op, l, r) == CASE op = "ADD" -> l + r [] op = "SUB" -> l - r [] op = "MUL" -> l * r
Compare(op, l, r) ==
  CASE op = "LT" -> l < r [] op = "GT" -> l > r [] op = "LE" -> l <= r
    [] op = "GE" -> l >= r [] op = "EQ" -> l = r [] op = "NE" -> l # r
\* val_to_bool: FCmp ONE 0.0 of a double, ICmp NE 0 otherwise
val_to_bool(m) == m.v # 0

RECURSIVE NativeRun(_, _, _, _, _, _, _, _)
NativeRun(iseq, is_func_jit, bgn, end, fall, pc, mstk, cells) ==
  LET Go(npc, nstk, ncells) ==
        NativeRun(iseq, is_func_jit, bgn, end, fall, npc, nstk, ncells)
      \* a branch to a label the pass did not position returns its position
      Branch(dst, nstk) ==
        IF ~is_func_jit /\ (dst < bgn \/ dst >= end)
        THEN [kind |-> "exit", pc |-> dst, cells |-> cells]
        ELSE Go(dst, nstk, cells)
      n == Len(mstk)
  IN IF pc >= end
     THEN IF is_func_jit THEN [kind |-> "ret", val |-> MVal("null", 0), cells |-> cells]
          ELSE [kind |-> "exit", pc |-> fall, cells |-> cells]
     ELSE
     LET inst == At(iseq, pc)
         op == inst.op
     IN CASE op \in Skipped5 -> Go(pc + 5, mstk, cells)
          [] op \in Skipped1 -> Go(pc + 1, mstk, cells)
          [] op = "JMP_IF_FALSE" ->
               IF val_to_bool(mstk[n]) THEN Go(pc + 5, PopN(mstk, 1), cells)
               ELSE Branch(pc + 5 + inst.arg, PopN(mstk, 1))
          [] op = "JMP" -> Branch(pc + 5 + inst.arg, mstk)
          [] op \in BinaryOps ->
               Go(pc + 1, Append(PopN(mstk, 2),
                                 MVal("f64", Arith(op, mstk[n - 1].v, mstk[n].v))), cells)
          [] op \in CompareOps ->
               Go(pc + 1, Append(PopN(mstk, 2),
                                 MVal("i1", B2I(Compare(op, mstk[n - 1].v, mstk[n].v)))), cells)
          [] op = "GET_NAME" ->
               LET name == ConstString[inst.arg]
               IN IF Has(cells, name) THEN Go(pc + 5, Append(mstk, cells[name]), cells)
                  \* the entry resolved when the code was generated: that of
                  \* the function the program declares under the name
                  ELSE IF IsFuncName(name)
                  THEN Go(pc + 5, Append(mstk, MVal("fn", FuncByName(name))), cells)
                  ELSE Go(pc + 5, Append(mstk, MVal("null", 0)), cells)
          [] op = "SET_NAME" ->
               LET name == ConstString[inst.arg]
               IN Go(pc + 5, PopN(mstk, 1), [cells EXCEPT ![name].v = mstk[n].v])
          [] op = "DECL_VAR" ->
               LET name == ConstString[inst.arg]
                   k == IF Has(cells, name) THEN cells[name].k ELSE "f64"
               IN Go(pc + 5, PopN(mstk, 1), Put(cells, name, MVal(k, mstk[n].v)))
          [] op = "PUSH_CONST" ->
               LET w == ConstValue[inst.arg]
               IN Go(pc + 5, Append(mstk, CASE w.t = "Number" -> MVal("f64", w.v)
                                            [] w.t = "Bool" -> MVal("i1", w.v)
                                            [] OTHER -> MVal("ptr", 0)), cells)
          [] op = "CALL" ->
               \* the callee's entry runs on the arguments, first popped first
               LET id == mstk[n].v
                   params == FuncParams(id)
                   r == NativeRun(FuncIseq(id), TRUE, 1, Len(FuncIseq(id)), 0, 1, <<>>,
                                  [name \in {params[i][1] : i \in 1..inst.arg} |->
                                     MVal("f64",
                                          mstk[n - (CHOOSE i \in 1..inst.arg :
                                                      params[i][1] = name)].v)])
               IN Go(pc + 5, Append(PopN(mstk, inst.arg + 1), r.val), cells)
          [] op = "PUSH_INT8" -> Go(pc + 2, Append(mstk, MVal("f64", inst.arg)), cells)
          [] op = "PUSH_INT32" -> Go(pc + 5, Append(mstk, MVal("f64", inst.arg)), cells)
          [] op = "PUSH_TRUE" -> Go(pc + 1, Append(mstk, MVal("i1", 1)), cells)
          [] op = "PUSH_FALSE" -> Go(pc + 1, Append(mstk, MVal("i1", 0)), cells)
          [] op = "POP" -> Go(pc + 1, PopN(mstk, 1), cells)
          [] op = "DOUBLE" -> Go(pc + 1, Append(mstk, mstk[n]), cells)
          [] op = "RETURN" -> [kind |-> "ret", val |-> mstk[n], cells |-> cells]

\* run_llvm_func: the native entry f called with the call's arguments.  The
\* result is the boxed value, or "panic".  A parameter of f beyond the passed
\* arguments, and a result read at another type than f returns, are whatever
\* the registers hold (junk).
ArgCells(f, args, junk) ==
  LET params == FuncParams(f.func_id)
  IN [name \in {params[i][1] : i \in 1..f.argc} |->
        LET i == CHOOSE j \in 1..f.argc : params[j][1] = name
        IN MVal("f64", IF i <= Len(args) THEN args[i].v ELSE junk)]

BoxResult(func_ret_ty, f, r, junk) ==
  IF func_ret_ty = "Number"
  THEN [res |-> "ok", val |-> Number(IF f.ret = "Number" THEN r.val.v ELSE junk)]
  ELSE [res |-> "ok", val |-> Bool((IF f.ret = "Bool" THEN r.val.v ELSE junk) % 2 = 1)]

\* variant: run_llvm_func calling the entry with any number of arguments
RunLlvmFunc_AnyArity(func_ret_ty, f, args, junk) ==
  IF \E i \in 1..Len(args) : args[i].t # "Number" THEN [res |-> "panic"]
  ELSE IF func_ret_ty = "String" THEN [res |-> "panic"]
  ELSE BoxResult(func_ret_ty, f,
                 NativeRun(FuncIseq(f.func_id), TRUE, 1, Len(FuncIseq(f.func_id)), 0, 1,
                           <<>>, ArgCells(f, args, junk)),
                 junk)

RunLlvmFunc(func_ret_ty, f, args, junk) ==
  IF \E i \in 1..Len(args) : args[i].t # "Number" THEN [res |-> "panic"]  \* unimplemented!()
  ELSE IF func_ret_ty = "String" THEN [res |-> "panic"]  \* unimplemented!()
  ELSE IF Len(args) > 3 THEN [res |-> "panic"]  \* unimplemented!("should be implemented..")
  ELSE BoxResult(func_ret_ty, f,
                 NativeRun(FuncIseq(f.func_id), TRUE, 1, Len(FuncIseq(f.func_id)), 0, 1,
                           <<>>, ArgCells(f, args, junk)),
                 junk)

run_llvm_func(types, id, f, args, junk) ==
  RunLlvmFunc(IF Has(types, id) THEN types[id] ELSE "Number", f, args, junk)

\* --------------------------------------------------------------- loop JIT
\* collect_local_variables: (name id, type) of the names read, written or
\* declared in [pc, end) that the local scope record binds to a typed value
RECURSIVE collect_local_variables(_, _, _, _)
collect_local_variables(vals, iseq, pc, end) ==
  IF pc >= end THEN {}
  ELSE LET inst == At(iseq, pc)
           name == ConstString[inst.arg]
           rest == collect_local_variables(vals, iseq, pc + get_inst_size(inst.op), end)
       IN IF inst.op \in {"DECL_VAR", "SET_NAME", "GET_NAME"}
             /\ Has(vals, name) /\ IsSome(get_value_type(vals[name]))
          THEN {<<inst.arg, Unwrap(get_value_type(vals[name]))>>} \cup rest
          ELSE rest

\* the Vec collected from the set, here in the order of the name ids
RECURSIVE SetToVec(_)
SetToVec(S) ==
  IF S = {} THEN <<>>
  ELSE LET m == CHOOSE x \in S : \A y \in S : x[1] <= y[1]
       IN <<m>> \o SetToVec(S \ {m})

LoopEnv(local_vars) ==
  [name \in {ConstString[local_vars[i][1]] : i \in 1..Len(local_vars)} |->
     LET i == CHOOSE j \in 1..Len(local_vars) : ConstString[local_vars[j][1]] = name
     IN to_llvmty(local_vars[i][2])]

GenCodeForLoop(s, iseq, bgn, end, local_vars) ==
  GenResult(gen_body(iseq, s.callobjs, CurScope(s), s.func_info, bgn,
                     [bgn |-> bgn, end |-> end], bgn, end, FALSE, LoopEnv(local_vars)),
            [res |-> "Ok", func |-> [bgn |-> bgn, end |-> end], local_vars |-> local_vars])

gen_code_for_loop(s, iseq, bgn, end) ==
  GenCodeForLoop(s, iseq, bgn, end,
    SetToVec(collect_local_variables(s.callobjs[CurScope(s)].vals, iseq, bgn, end)))

\* the positions a loop function can return when its last block falls through
FallTargets(iseq, bgn, end) ==
  LET outer == {l \in Labels(iseq, bgn, end, FALSE) : l < bgn \/ l >= end}
  IN IF outer = {} THEN {end} ELSE outer

\* the local at index i as run_loop_llvm_func meets it: "panic" when the
\* name is unbound (unwrap), "none" for a value that is neither Number nor
\* Bool, else "box"
LocalArg(s, local_vars, i) ==
  LET val == get_value(s.callobjs, CurScope(s), ConstString[local_vars[i][1]])
  IN IF ~IsSome(val) THEN "panic"
     ELSE IF Unwrap(val).t \in {"Number", "Bool"} THEN "box" ELSE "none"

\* run_loop_llvm_func.  The box of a local holds the value at its own type;
\* the generated code and the write-back read it at the recorded type, so a
\* box of another type reads as junk.
LocalName(local_vars, i) == ConstString[local_vars[i][1]]

LocalBox(s, local_vars, i, junk) ==
  LET val == Unwrap(get_value(s.callobjs, CurScope(s), LocalName(local_vars, i)))
      ty == local_vars[i][2]
  IN MVal(to_llvmty(ty),
          IF val.t = ty THEN val.v ELSE IF ty = "Bool" THEN junk % 2 ELSE junk)

LocalCells(s, local_vars, junk) ==
  [nm \in {LocalName(local_vars, i) : i \in 1..Len(local_vars)} |->
     LocalBox(s, local_vars,
              CHOOSE i \in 1..Len(local_vars) : LocalName(local_vars, i) = nm, junk)]

RECURSIVE WriteBack(_, _, _, _, _)
WriteBack(callobjs, cid, local_vars, cells, i) ==
  IF i > Len(local_vars) THEN callobjs
  ELSE WriteBack(set_value_if_exist(callobjs, cid, LocalName(local_vars, i),
                   IF local_vars[i][2] = "Number"
                   THEN Number(cells[LocalName(local_vars, i)].v)
                   ELSE Bool(cells[LocalName(local_vars, i)].v = 1)),
                 cid, local_vars, cells, i + 1)

\* variant: every slot of the loop function is written to the scope record
RECURSIVE WriteCells(_, _, _, _)
WriteCells(callobjs, cid, cells, names) ==
  IF names = {} THEN callobjs
  ELSE LET nm == CHOOSE x \in names : TRUE
       IN WriteCells(set_value(callobjs, cid, nm,
                       IF cells[nm].k = "i1" THEN Bool(cells[nm].v = 1)
                       ELSE Number(cells[nm].v)),
                     cid, cells, names \ {nm})
LoopReturned_writing_all_cells(s, local_vars, r) ==
  [s |-> [s EXCEPT !.callobjs = WriteCells(@, CurScope(s), r.cells, DOMAIN r.cells)],
   pc |-> Some(r.pc), native |-> TRUE]

\* after the native run r: the write-back, and the position to resume at
LoopReturned(s, local_vars, r) ==
  IF \E i \in 1..Len(local_vars) : local_vars[i][2] = "String"
  THEN [s |-> Fail(s, "panic"), pc |-> None, native |-> TRUE]  \* unimplemented!()
  ELSE [s |-> [s EXCEPT !.callobjs = WriteBack(@, CurScope(s), local_vars, r.cells, 1)],
        pc |-> Some(r.pc), native |-> TRUE]

\* bad: the locals that cannot be boxed; the first of them decides
LoopBoxed(s, iseq, f, local_vars, junk, fall, bad) ==
  IF bad # {}
  THEN IF LocalArg(s, local_vars, CHOOSE i \in bad : \A j \in bad : i <= j) = "panic"
       THEN [s |-> Fail(s, "panic"), pc |-> None, native |-> FALSE]
       ELSE [s |-> s, pc |-> None, native |-> FALSE]
  ELSE LoopReturned(s, local_vars,
                    NativeRun(iseq, FALSE, f.bgn, f.end, fall, f.bgn, <<>>,
                              LocalCells(s, local_vars, junk)))

run_loop_llvm_func(s, iseq, f, local_vars, junk, fall) ==
  LoopBoxed(s, iseq, f, local_vars, junk, fall,
            {i \in 1..Len(local_vars) : LocalArg(s, local_vars, i) # "box"})

\* can_loop_jit: pc is the position to resume at after a native run of the
\* loop, None when the interpreter goes on; gen tells whether code
\* generation ran, native whether the loop function was called
WithGen(r, b) == [s |-> r.s, pc |-> r.pc, native |-> r.native, gen |-> b]

CanLoopJitGenerated(s, site, iseq, junk, fall, g) ==
  CASE g.res = "Panic" ->
         [s |-> Fail(s, "panic"), pc |-> None, native |-> FALSE, gen |-> TRUE]
    [] g.res = "Err" ->
         [s |-> [s EXCEPT !.loop_info[site].cannot_jit = TRUE],
          pc |-> None, native |-> FALSE, gen |-> TRUE]
    [] g.res = "Ok" ->
         WithGen(run_loop_llvm_func(
                   [s EXCEPT !.loop_info[site].raw_func = Some(g.func),
                             !.loop_info[site].llvm_func = Some(g.func),
                             !.loop_info[site].local_vars = g.local_vars],
                   iseq, g.func, g.local_vars, junk, fall),
                 TRUE)

\* can_loop_jit once the site is hot and its LoopInfo exists
CanLoopJitHot(s, site, iseq, bgn, end, junk, fall) ==
  IF s.loop_info[site].cannot_jit
  THEN [s |-> s, pc |-> None, native |-> FALSE, gen |-> FALSE]
  ELSE IF IsSome(s.loop_info[site].raw_func)
       THEN WithGen(run_loop_llvm_func(s, iseq, Unwrap(s.loop_info[site].raw_func),
                                       s.loop_info[site].local_vars, junk, fall),
                    FALSE)
  ELSE CanLoopJitGenerated(s, site, iseq, junk, fall, gen_code_for_loop(s, iseq, bgn, end))

can_loop_jit(s, func_id, iseq, bgn, end, junk, fall) ==
  IF ~loop_is_called_enough_times(s.count, func_id, bgn)
  THEN [s |-> [s EXCEPT !.count = inc_count(@, func_id, bgn)],
        pc |-> None, native |-> FALSE, gen |-> FALSE]
  ELSE CanLoopJitHot(
         [s EXCEPT !.loop_info = OrInsert(@, UniquePosition(func_id, bgn), NewLoopInfo)],
         UniquePosition(func_id, bgn), iseq, bgn, end, junk, fall)

\* the loop_start handler; r is what can_loop_jit answered
loop_start_jit(s, junk, fall) ==
  can_loop_jit([s EXCEPT !.pc = @ + 5], s.cur_func_id, CurIseq(s), s.pc, CurInst(s).arg,
               junk, fall)
LoopStarted(r) == IF IsSome(r.pc) THEN [r.s EXCEPT !.pc = Unwrap(r.pc)] ELSE r.s
loop_start(s, junk, fall) == LoopStarted(loop_start_jit(s, junk, fall))

\* ------------------------------------------------------ call and return
\* variant: only the first argument is tested
args_first_is_number(args) == Len(args) = 0 \/ args[1].t = "Number"

args_all_numbers(args) == \A i \in 1..Len(args) : args[i].t = "Number"

\* the CallObject a Function value embeds, as `call` passes it on: the formal
\* parameters of the function, the parent link, and a fresh variable map
CalleeCallObject(fv) == CallObject(EmptyMap, FuncParams(fv.v), fv.parent)

\* the arguments collected in rest_args: those at a rest parameter and those
\* beyond the formal parameters, in the order of args
RECURSIVE RestArgs(_, _, _)
RestArgs(params, args, i) ==
  IF i > Len(args) THEN <<>>
  ELSE (IF i > Len(params) \/ params[i][2] THEN <<args[i]>> ELSE <<>>)
       \o RestArgs(params, args, i + 1)

\* call_function up to the choice between the native entry and do_run: the
\* scope record of the call with the parameters bound (co), and the array
\* heap with the Array of a rest parameter added
BindArgs(arrays, callobj, args) ==
  LET params == callobj.params
      named == {i \in 1..Len(args) : i <= Len(params)}
      plain == {i \in named : ~params[i][2]}
      rests == {i \in named : params[i][2]}
      Last(S) == CHOOSE i \in S : \A j \in S : j <= i
      vals == [name \in DOMAIN callobj.vals \cup {params[i][1] : i \in plain} |->
                 IF \E i \in plain : params[i][1] = name
                 THEN args[Last({i \in plain : params[i][1] = name})]
                 ELSE callobj.vals[name]]
      rest_args == RestArgs(params, args, 1)
      aid == NewId(arrays)
  IN IF rests # {}
     THEN [co |-> [callobj EXCEPT !.vals = Put(vals, params[Last(rests)][1], Array(aid))],
           arrays |-> Put(arrays, aid, ArrayValue(rest_args))]
     ELSE [co |-> [callobj EXCEPT !.vals = vals, !.arg_rest_vals = @ \o rest_args],
           arrays |-> arrays]

PushScopeBound(s, cid, b) ==
  [s EXCEPT !.callobjs = Put(@, cid, b.co), !.arrays = b.arrays, !.scope = Append(@, cid)]

PushScope(s, callobj, args) ==
  PushScopeBound(s, NewId(s.callobjs), BindArgs(s.arrays, callobj, args))

\* whether the heap or the operand stack still refers to scope record cid:
\* as the parent of another record or of a Function value
RefersTo(val, cid) == val.t = "Function" /\ val.parent = cid
Referenced(s, cid) ==
  \/ \E i \in 1..Len(s.stack) : RefersTo(s.stack[i], cid)
  \/ \E c \in DOMAIN s.callobjs \ {cid} :
       \/ s.callobjs[c].parent = cid
       \/ \E n \in DOMAIN s.callobjs[c].vals : RefersTo(s.callobjs[c].vals[n], cid)
       \/ \E i \in 1..Len(s.callobjs[c].arg_rest_vals) :
            RefersTo(s.callobjs[c].arg_rest_vals[i], cid)
  \/ \E a \in DOMAIN s.arrays : \E i \in 1..Len(s.arrays[a].elems) : RefersTo(s.arrays[a].elems[i], cid)
  \/ \E o \in DOMAIN s.objs : \E k \in DOMAIN s.objs[o] : RefersTo(s.objs[o][k], cid)

\* scope.pop(); a record nothing refers to any more is collected
PopScope(s) ==
  [s EXCEPT !.scope = PopN(@, 1),
            !.callobjs = IF Referenced([s EXCEPT !.scope = PopN(@, 1)], CurScope(s)) THEN @
                         ELSE [c \in DOMAIN @ \ {CurScope(s)} |-> @[c]]]

\* what can_jit answers for this call (after the scope push)
call_function_jit(s, id, args, callobj) ==
  can_jit(PushScope(s, callobj, args), id, FuncIseq(id), NewId(s.callobjs), Len(args))

\* the interpreted branch: a frame is entered, do_run goes on from pc 0
EnterFrame(s, id) ==
  [s EXCEPT !.history = Append(@, <<Len(s.stack), s.pc>>),
            !.pc = 0,
            !.frames = Append(@, [id |-> id, save_id |-> s.cur_func_id, ctor |-> None]),
            !.cur_func_id = id]

\* the native branch: the boxed result n is pushed and the scope popped
CallReturned(s, n) ==
  IF n.res = "panic" THEN Fail(s, "panic")
  ELSE PopScope([s EXCEPT !.stack = Append(@, n.val)])

\* call_function after can_jit answered r
CallJit(r, id, args, junk) ==
  [gen |-> r.gen, f |-> r.f,
   s |-> IF r.s.status # "ok" THEN r.s
         ELSE IF ~IsSome(r.f) THEN EnterFrame(r.s, id)
         ELSE CallReturned(r.s, run_llvm_func(r.s.function_return_types, id, Unwrap(r.f),
                                              args, junk))]

\* call_function up to the return of the native entry or to the entry of
\* do_run: s is the state then, f the native entry can_jit chose (if any),
\* gen whether code generation ran
call_function(s, id, args, callobj, junk) ==
  IF ~args_all_numbers(args)
  THEN [gen |-> FALSE, f |-> None, s |-> EnterFrame(PushScope(s, callobj, args), id)]
  ELSE CallJit(call_function_jit(s, id, args, callobj), id, args, junk)

\* a builtin called with args: it leaves its result, or Undefined, on the
\* operand stack
builtin_function(s, x, args) == [s EXCEPT !.stack = Append(@, Undefined)]

TypeError(what) == <<"type error: '", what, "' is not a function but called">>

\* the arguments `call` pops after the callee: args[1] was nearest the top
\* the arguments taken from the bottom one upwards
PoppedArgs_bottom_up(s, argc) == [i \in 1..argc |-> s.stack[Len(s.stack) - argc - 1 + i]]
PoppedArgs(s, argc) == [i \in 1..argc |-> s.stack[Len(s.stack) - i]]

\* the `call` handler, up to the return of the builtin or of the native entry
\* or to the entry of do_run
call(s, junk) ==
  LET argc == CurInst(s).arg
      callee == Top(s)
      s1 == [s EXCEPT !.pc = @ + 5, !.stack = PopN(@, argc + 1)]
  IN CASE callee.t = "BuiltinFunction" ->
            [gen |-> FALSE, f |-> None,
             s |-> builtin_function(s1, callee.v, PoppedArgs(s, argc))]
       [] callee.t = "Function" ->
            call_function(s1, callee.v, PoppedArgs(s, argc), CalleeCallObject(callee), junk)
       [] OTHER ->
            [gen |-> FALSE, f |-> None,
             s |-> Fail([s EXCEPT !.pc = @ + 5, !.stack = PopN(@, 1),
                                  !.msg = TypeError(callee.t)], "Type")]

ConstructorError(what) == <<"type error: '", what, "' is not a constructor">>

\* the `construct` handler up to the entry of do_run (a user function is
\* always interpreted here) or to the return of the builtin: new_this is a
\* new map whose __proto__ is the callee's own `prototype` entry, or
\* Undefined when it has none
construct(s) ==
  LET argc == CurInst(s).arg
      callee == Top(s)
      args == PoppedArgs(s, argc)
      s1 == [s EXCEPT !.pc = @ + 5, !.stack = PopN(@, argc + 1)]
      nid == NewId(s.objs)
      obj == s.objs[FuncObj(callee)]
      new_this == "__proto__" :> (IF Has(obj, "prototype") THEN obj["prototype"]
                                  ELSE Undefined)
      s2 == [s1 EXCEPT !.objs = Put(@, nid, new_this)]
      callobj == [CalleeCallObject(callee) EXCEPT !.this = Object(nid)]
  IN CASE callee.t = "BuiltinFunction" -> builtin_function(s2, callee.v, args)
       [] callee.t = "Function" ->
            [EnterFrame(PushScope(s2, callobj, args), callee.v)
               EXCEPT !.frames[Len(s.frames) + 1].ctor = Some(nid)]
       [] OTHER -> Fail([s EXCEPT !.pc = @ + 5, !.stack = PopN(@, 1),
                                  !.msg = ConstructorError(callee.t)], "Type")

construct_tail_always_new_this(s) ==
  LET fr == s.frames[Len(s.frames)]
      s1 == PopScope([s EXCEPT !.cur_func_id = fr.save_id, !.frames = PopN(@, 1)])
  IN [s1 EXCEPT !.stack[Len(s.stack)] = Object(Unwrap(fr.ctor))]

\* the rest of construct once do_run has returned: the returned value stays
\* if it is an Object, Array, Function or BuiltinFunction, else new_this
\* replaces it
construct_tail(s) ==
  LET fr == s.frames[Len(s.frames)]
      s1 == PopScope([s EXCEPT !.cur_func_id = fr.save_id, !.frames = PopN(@, 1)])
  IN IF HasMap(Top(s)) THEN s1
     ELSE [s1 EXCEPT !.stack[Len(s.stack)] = Object(Unwrap(fr.ctor))]

\* return_, and the rest of call_function once do_run has returned
\* a return that leaves the callee's value below the one it pushes
return_keeping_value(s) ==
  LET h == s.history[Len(s.history)]
  IN [s EXCEPT !.history = PopN(@, 1),
               !.stack = Append(SubSeq(@, 1, h[1] + 1), Top(s)),
               !.pc = h[2]]

return_(s) ==
  LET h == s.history[Len(s.history)]
  IN [s EXCEPT !.history = PopN(@, 1),
               !.stack = Append(SubSeq(@, 1, h[1]), Top(s)),
               !.pc = h[2]]

\* variant: the epilogue without scope.pop()
call_function_tail_keeping_scope(s) ==
  LET fr == s.frames[Len(s.frames)]
      s1 == [s EXCEPT !.cur_func_id = fr.save_id, !.frames = PopN(@, 1)]
  IN [s1 EXCEPT !.function_return_types = record_function_return_type(@, fr.id, Top(s))]

call_function_tail(s) ==
  LET fr == s.frames[Len(s.frames)]
      s1 == PopScope([s EXCEPT !.cur_func_id = fr.save_id, !.frames = PopN(@, 1)])
  IN [s1 EXCEPT !.function_return_types = record_function_return_type(@, fr.id, Top(s))]

\* --------------------------------------------- interpretation without JIT
\* One interpreter step with the JIT left out (loop_start only steps over its
\* operand), and the run of a region and of a whole call built from it: what
\* the bytecode does when every entry is interpreted.
RECURSIVE InterpCall(_, _, _, _)
InterpStep(s) ==
  LET op == CurInst(s).op
  IN CASE op = "CREATE_CONTEXT" -> create_context(s)
       [] op = "CALL" ->
            IF Top(s).t = "Function"
            THEN InterpCall([s EXCEPT !.pc = @ + 5, !.stack = PopN(@, CurInst(s).arg + 1)],
                            Top(s).v, PoppedArgs(s, CurInst(s).arg),
                            CalleeCallObject(Top(s)))
            ELSE call(s, 0).s
       [] op = "PUSH_INT8" -> push_int8(s)
       [] op = "PUSH_CONST" -> push_const(s)
       [] op = "PUSH_UNDEFINED" -> push_undefined(s)
       [] op = "ADD" -> add(s)
       [] op = "LT" -> lt(s)
       [] op = "SET_MEMBER" -> set_member(s)
       [] op = "JMP" -> jmp(s)
       [] op = "JMP_IF_FALSE" -> jmp_if_false(s)
       [] op = "POP" -> pop(s)
       [] op = "GET_NAME" -> get_name(s)
       [] op = "SET_NAME" -> set_name(s)
       [] op = "DECL_VAR" -> decl_var(s)
       [] op = "LOOP_START" -> [s EXCEPT !.pc = @ + 5]

RECURSIVE InterpRegion(_, _, _)
InterpRegion(s, bgn, end) ==
  IF s.status # "ok" \/ s.pc < bgn \/ s.pc >= end \/ CurInst(s).op = "RETURN" THEN s
  ELSE InterpRegion(InterpStep(s), bgn, end)

InterpReturned(s) == IF s.status = "ok" THEN call_function_tail(return_(s)) ELSE s
InterpCall(s, id, args, callobj) ==
  InterpReturned(InterpRegion(EnterFrame(PushScope(s, callobj, args), id), 0,
                              Len(FuncIseq(id))))

\* what a program can observe of a call: the operand stack, the objects, the
\* global bindings, and whether the VM still runs
Observable(s) ==
  [stack |-> s.stack, objs |-> s.objs, globals |-> s.callobjs[GlobalScope].vals,
   status |-> s.status]
\* and of a loop at the point it is left: also every binding and the pc
ObservableLoop(s) ==
  [stack |-> s.stack, objs |-> s.objs, callobjs |-> s.callobjs, pc |-> s.pc,
   status |-> s.status]

\* ------------------------------------------------------------ inputs
ArgVals == {Number(0), Number(1), Bool(TRUE)}
\* the argument lists of the calls: none, one value, a Number and then a
\* Number or a Bool, a Bool and then a Number, a Number and then a String or
\* an Object, and Number(1) up to MaxArgc times
ArgLists ==
  {<<>>} \cup {<<x>> : x \in ArgVals}
  \cup {<<x, y>> : x \in {Number(0), Number(1)}, y \in {Number(1), Bool(TRUE)}}
  \cup {<<Bool(TRUE), Number(1)>>, <<Number(1), String(1)>>, <<Number(1), Object(1)>>}
  \cup {[i \in 1..n |-> Number(1)] : n \in 3..MaxArgc}
\* what a read of a box or register at the wrong type can give
JunkVals == {0, 3}

\* --------------------------------------------------------------- state
VARIABLES stack, scope, pc, history, cur_func_id, callobjs, objs, arrays,
          count, func_info, loop_info, function_return_types,
          frames, status, msg, last, gen_calls, prev, calls

vars == <<stack, scope, pc, history, cur_func_id, callobjs, objs, arrays,
          count, func_info, loop_info, function_return_types,
          frames, status, msg, last, gen_calls, prev, calls>>

State ==
  [stack |-> stack, scope |-> scope, pc |-> pc, history |-> history,
   cur_func_id |-> cur_func_id, callobjs |-> callobjs, objs |-> objs,
   arrays |-> arrays,
   count |-> count, func_info |-> func_info, loop_info |-> loop_info,
   function_return_types |-> function_return_types, frames |-> frames,
   status |-> status, msg |-> msg]

Commit(s) ==
  /\ stack' = s.stack /\ scope' = s.scope /\ pc' = s.pc /\ history' = s.history
  /\ cur_func_id' = s.cur_func_id /\ callobjs' = s.callobjs /\ objs' = s.objs
  /\ arrays' = s.arrays
  /\ count' = s.count /\ func_info' = s.func_info /\ loop_info' = s.loop_info
  /\ function_return_types' = s.function_return_types /\ frames' = s.frames
  /\ status' = s.status /\ msg' = s.msg

\* the latest step (history variable): its opcode, the state it started from
\* and, for a return, the `call` it ended
NoCall ==
  [height |-> 0, pc |-> 0, callee |-> Undefined, args |-> <<>>,
   scope |-> 0, history |-> 0, frames |-> 0, func |-> 0]
\* cut: the slots <<array, index>> an assignment to length has cut off and
\* that no indexed store has written since
Cut(cut, s, op) ==
  IF op = "SET_MEMBER" /\ Len(s.stack) >= 3 /\ s.stack[Len(s.stack) - 1].t = "Array"
  THEN LET member == s.stack[Len(s.stack)]
           a == s.stack[Len(s.stack) - 1].v
           val == s.stack[Len(s.stack) - 2]
       IN CASE member.t = "Number" /\ member.v >= 0 -> cut \ {<<a, member.v>>}
            [] member.t = "String" /\ StringTable[member.v] = "length"
               /\ val.t = "Number" /\ val.v >= 0 /\ val.v < s.arrays[a].length ->
                 cut \cup {<<a, i>> : i \in val.v..(s.arrays[a].length - 1)}
            [] OTHER -> cut
  ELSE cut
NoStep == [op |-> "none", s |-> <<>>, call |-> NoCall, cut |-> {}]
Stepped(op, ended) ==
  prev' = [op |-> op, s |-> State, call |-> ended, cut |-> Cut(prev.cut, State, op)]

\* the latest entry of a hot site (history variable)
NoEntry ==
  [kind |-> "none", site |-> <<0, 0>>, args |-> <<>>,
   cnt |-> 0, dead |-> FALSE, entry |-> None, gen |-> FALSE, path |-> "none",
   used |-> None, typed |-> FALSE, ref |-> None, got |-> None]

\* (a declaration `function f(..) {..}` of the main program is PUSH_CONST,
\* SET_CUR_CALLOBJ, DECL_VAR: the value bound has the global record as parent)
Declared(id) == [Function(id) EXCEPT !.parent = GlobalScope]

\* VM::new with the global bindings globals
VMNew(globals) ==
  [stack |-> <<>>, scope |-> <<GlobalScope>>, pc |-> 0, history |-> <<<<0, 0>>>>,
   cur_func_id |-> 0, callobjs |-> (GlobalScope :> CallObject(globals, <<>>, 0)),
   objs |-> (1 :> EmptyMap), arrays |-> (ArrayPrototype :> ARRAY_PROTOTYPE),
   count |-> <<>>, func_info |-> <<>>, loop_info |-> <<>>,
   function_return_types |-> <<>>, frames |-> <<>>, status |-> "ok", msg |-> <<>>]

Holds(s) ==
  /\ stack = s.stack /\ scope = s.scope /\ pc = s.pc /\ history = s.history
  /\ cur_func_id = s.cur_func_id /\ callobjs = s.callobjs /\ objs = s.objs
  /\ arrays = s.arrays
  /\ count = s.count /\ func_info = s.func_info /\ loop_info = s.loop_info
  /\ function_return_types = s.function_return_types /\ frames = s.frames
  /\ status = s.status /\ msg = s.msg

\* VM::new with the program loaded: the global scope binds the object o and
\* the one function the program declares
Init ==
  /\ \E id \in FuncIds :
       Holds(VMNew(("o" :> Object(1)) @@ (FuncName(id) :> Declared(id))))
  /\ last = NoEntry /\ gen_calls = <<>>
  /\ prev = NoStep /\ calls = <<>>

\* ------------------------------------------------------------- actions
GenCount(site) == IF Has(gen_calls, site) THEN gen_calls[site] ELSE 0
Stored(id) == IF Has(func_info, id) THEN func_info[id].func_addr ELSE None
StoredLoop(site) == IF Has(loop_info, site) THEN loop_info[site].raw_func ELSE None
Dead(id) == Has(func_info, id) /\ func_info[id].cannot_jit
DeadLoop(site) == Has(loop_info, site) /\ loop_info[site].cannot_jit

PathOf(t, native) ==
  IF t.status = "panic" THEN "panic" ELSE IF native THEN "native" ELSE "interp"
\* the interpreted reference and the outcome are kept for the entries that
\* were not interpreted
Unless(path, x) == IF path = "interp" THEN None ELSE Some(x)

\* the step to state t, with e recorded as the latest entry
Entered(t, gen, e) ==
  /\ Commit(t)
  /\ gen_calls' = IF gen THEN Put(gen_calls, e.site, GenCount(e.site) + 1) ELSE gen_calls
  /\ last' = e

HostCallDone(s, id, args, callobj, c) ==
  Entered(c.s, c.gen,
    [kind |-> "func", site |-> UniquePosition(id, 0), args |-> args,
     cnt |-> Count(s.count, UniquePosition(id, 0)), dead |-> Dead(id),
     entry |-> Stored(id), gen |-> c.gen, path |-> PathOf(c.s, IsSome(c.f)),
     used |-> IF PathOf(c.s, IsSome(c.f)) = "native" THEN c.f ELSE None,
     typed |-> \A i \in 1..Len(args) : args[i].t = "Number",
     ref |-> Unless(PathOf(c.s, IsSome(c.f)), Observable(InterpCall(s, id, args, callobj))),
     got |-> Unless(PathOf(c.s, IsSome(c.f)), Observable(c.s))])

\* The main program calls a function it declared: the `call` handler with
\* the callee and args popped from the operand stack, then call_function up
\* to the return of the native entry or to the entry of do_run.  (The main
\* program is any sequence of statements `f(args);`: a call on an empty
\* operand stack, then a pop.  Its own pc is not followed.)
HostCall(id, args, junk) ==
  /\ status = "ok" /\ frames = <<>> /\ stack = <<>>
  /\ get_value(callobjs, GlobalScope, FuncName(id)) = Some(Declared(id))
  /\ HostCallDone(State, id, args, CalleeCallObject(Declared(id)),
                  call_function(State, id, args, CalleeCallObject(Declared(id)), junk))
  /\ Stepped("CALL", NoCall) /\ UNCHANGED calls

\* the main program drops the value a call left (an expression statement)
HostPop ==
  /\ status = "ok" /\ frames = <<>> /\ stack # <<>>
  /\ Commit([State EXCEPT !.stack = PopN(@, 1)])
  /\ Stepped("POP", NoCall)
  /\ UNCHANGED <<last, gen_calls, calls>>

\* do_run inside a called function: the handler of the opcode at pc
Running(op) == status = "ok" /\ frames # <<>> /\ CurInst(State).op = op
Step(t) ==
  /\ Commit(t)
  /\ Stepped(CurInst(State).op, NoCall)
  /\ UNCHANGED <<last, gen_calls, calls>>

CreateContext == Running("CREATE_CONTEXT") /\ Step(create_context(State))
PushInt8 == Running("PUSH_INT8") /\ Step(push_int8(State))
PushConst == Running("PUSH_CONST") /\ Step(push_const(State))
PushUndefined == Running("PUSH_UNDEFINED") /\ Step(push_undefined(State))
Add == Running("ADD") /\ Step(add(State))
Lt == Running("LT") /\ Step(lt(State))
SetMember == Running("SET_MEMBER") /\ Step(set_member(State))
Jmp == Running("JMP") /\ Step(jmp(State))
JmpIfFalse == Running("JMP_IF_FALSE") /\ Step(jmp_if_false(State))
Pop == Running("POP") /\ Step(pop(State))
GetName == Running("GET_NAME") /\ Step(get_name(State))
SetName == Running("SET_NAME") /\ Step(set_name(State))
DeclVar == Running("DECL_VAR") /\ Step(decl_var(State))

\* RETURN ends do_run: return_, then call_function's epilogue
Return ==
  /\ Running("RETURN")
  /\ Commit(IF IsSome(frames[Len(frames)].ctor) THEN construct_tail(return_(State))
            ELSE call_function_tail(return_(State)))
  /\ Stepped("RETURN", IF calls = <<>> THEN NoCall ELSE calls[Len(calls)])
  /\ calls' = IF calls = <<>> THEN calls ELSE PopN(calls, 1)
  /\ UNCHANGED <<last, gen_calls>>

\* whether every recorded local of the loop holds a value of its recorded type
TypesMatch(s, local_vars) ==
  \A i \in 1..Len(local_vars) :
    LET val == get_value(s.callobjs, CurScope(s), ConstString[local_vars[i][1]])
    IN IsSome(val) /\ Unwrap(val).t = local_vars[i][2]

LoopStartDone(s, site, r, t) ==
  Entered(t, r.gen,
    [kind |-> "loop", site |-> site, args |-> <<>>,
     cnt |-> Count(s.count, site), dead |-> DeadLoop(site), entry |-> StoredLoop(site),
     gen |-> r.gen, path |-> PathOf(t, r.native),
     used |-> IF r.native THEN r.s.loop_info[site].raw_func ELSE None,
     typed |-> Has(r.s.loop_info, site) /\ TypesMatch(s, r.s.loop_info[site].local_vars),
     ref |-> Unless(PathOf(t, r.native),
                    ObservableLoop(InterpRegion([s EXCEPT !.pc = @ + 5], s.pc,
                                                CurInst(s).arg))),
     got |-> Unless(PathOf(t, r.native), ObservableLoop(t))])

LoopStartJit(s, r) ==
  LoopStartDone(s, UniquePosition(s.cur_func_id, s.pc), r, LoopStarted(r))

\* do_run meets LOOP_START: the loop_start handler
LoopStart(junk) ==
  /\ Running("LOOP_START")
  /\ \E fall \in FallTargets(CurIseq(State), pc, CurInst(State).arg) :
       LoopStartJit(State, loop_start_jit(State, junk, fall))
  /\ Stepped("LOOP_START", NoCall) /\ UNCHANGED calls

\* --------------------------------------- the programs of the call machinery
\* do_run meets CALL: the `call` handler.  c is what it did; the call is
\* recorded as pending when a frame was entered.
Pending(s) ==
  [height |-> Len(s.stack), pc |-> s.pc, callee |-> Top(s),
   args |-> PoppedArgs(s, CurInst(s).arg),
   scope |-> Len(s.scope), history |-> Len(s.history), frames |-> Len(s.frames),
   func |-> s.cur_func_id]

CallDone(s, c) ==
  /\ IF Top(s).t = "Function"
     THEN HostCallDone([s EXCEPT !.pc = @ + 5, !.stack = PopN(@, CurInst(s).arg + 1)],
                       Top(s).v, PoppedArgs(s, CurInst(s).arg), CalleeCallObject(Top(s)), c)
     ELSE Commit(c.s) /\ UNCHANGED <<last, gen_calls>>
  /\ Stepped("CALL", Pending(s))
  /\ calls' = IF Len(c.s.frames) > Len(s.frames) THEN Append(calls, Pending(s)) ELSE calls

Call(junk) == Running("CALL") /\ CallDone(State, call(State, junk))

SetCurCallobj == Running("SET_CUR_CALLOBJ") /\ Step(set_cur_callobj(State))
PushArguments == Running("PUSH_ARGUMENTS") /\ Step(push_arguments(State))
GetMember == Running("GET_MEMBER") /\ Step(get_member(State))

\* do_run meets CONSTRUCT; the call is recorded as pending when a frame was
\* entered
Construct ==
  /\ Running("CONSTRUCT")
  /\ Commit(construct(State))
  /\ Stepped("CONSTRUCT", Pending(State))
  /\ calls' = IF Len(construct(State).frames) > Len(frames)
              THEN Append(calls, Pending(State)) ELSE calls
  /\ UNCHANGED <<last, gen_calls>>
PushThis == Running("PUSH_THIS") /\ Step(push_this(State))
CreateObject == Running("CREATE_OBJECT") /\ Step(create_object(State))
CreateArray == Running("CREATE_ARRAY") /\ Step(create_array(State))
CompareOp ==
  \E i \in 1..Len(CmpOps) :
    CmpOps[i] # "LT" /\ Running(CmpOps[i]) /\ Step(compare(State, CmpOps[i]))

\* the values the programs are run on
InputVals == {Number(0), Number(1), Number(2), Bool(TRUE)}
\* the global bindings of the loaded program: the object o, a number c, the
\* declared functions and the builtin log
CallGlobals ==
  [name \in {"o", "c", "log"} \cup {FuncName(id) : id \in CallFuncIds} |->
     CASE name = "o" -> Object(1)
       [] name = "c" -> Number(100)
       [] name = "log" -> BuiltinFunction(1)
       [] OTHER -> Declared(CHOOSE id \in CallFuncIds : FuncName(id) = name)]

\* the main program has called one of the programs on two inputs
CallInit ==
  /\ \E id \in Drivers, x \in InputVals, y \in InputVals :
       Holds(call_function(VMNew(CallGlobals), id, <<x, y>>,
                           CalleeCallObject(Declared(id)), 0).s)
  /\ last = NoEntry /\ gen_calls = <<>>
  /\ prev = NoStep /\ calls = <<>>

CallNext ==
  \/ \E junk \in JunkVals : Call(junk)
  \/ SetCurCallobj \/ PushArguments \/ GetMember
  \/ CreateContext \/ PushInt8 \/ PushConst \/ Add \/ Lt
  \/ SetMember \/ JmpIfFalse \/ Pop \/ GetName \/ SetName \/ DeclVar
  \/ Return

CallSpec == CallInit /\ [][CallNext]_vars

\* ------------------------------ the programs over objects and comparisons
ObjInputVals == {Number(0), Number(1), Bool(TRUE), String(1), Object(1)}
\* the global bindings: the object o, the builtin log, the constructors
ObjGlobals ==
  ("o" :> Object(1)) @@ ("log" :> BuiltinFunction(1))
  @@ ("C" :> Declared(20)) @@ ("D" :> Declared(21)) @@ ("E" :> Declared(22))
\* VM::new with the property maps of these function values
ObjVMNew ==
  [VMNew(ObjGlobals) EXCEPT
     !.objs = @ @@ new_value_function(Declared(20)) @@ new_value_function(Declared(21))
                @@ new_value_function(Declared(22))
                @@ builtin_function_with_obj_and_prototype(BuiltinFunction(1))]

\* the main program has called one of the programs on two inputs
ObjInit ==
  /\ \E id \in ObjDrivers, x \in ObjInputVals, y \in ObjInputVals :
       Holds(call_function(ObjVMNew, id, <<x, y>>, CalleeCallObject(Declared(id)), 0).s)
  /\ last = NoEntry /\ gen_calls = <<>>
  /\ prev = NoStep /\ calls = <<>>

ObjNext ==
  \/ Construct \/ PushThis \/ CreateObject \/ CreateArray \/ CompareOp
  \/ GetMember \/ SetMember
  \/ CreateContext \/ PushInt8 \/ PushConst \/ PushUndefined \/ Lt
  \/ Pop \/ GetName \/ DeclVar \/ Return

ObjSpec == ObjInit /\ [][ObjNext]_vars

\* the programs of the call machinery and the programs over objects together
FrameInit == CallInit \/ ObjInit
FrameNext == CallNext \/ ObjNext
FrameSpec == FrameInit /\ [][FrameNext]_vars

\* ------------------------- the programs with calls inside compiled regions
\* the functions a program declares together
NestPrograms == {{34, 35}, {36}, {34, 37}, {22, 38}}
\* every call passes one Number, as every function here has one parameter
NestArgs == {<<Number(0)>>, <<Number(1)>>}

NestInit ==
  /\ \E P \in NestPrograms :
       Holds(VMNew(("o" :> Object(1))
                   @@ [name \in {FuncName(id) : id \in P} |-> Declared(FuncByName(name))]))
  /\ last = NoEntry /\ gen_calls = <<>>
  /\ prev = NoStep /\ calls = <<>>

NestNext ==
  \/ \E id \in NestFuncIds \cup {22}, args \in NestArgs, junk \in JunkVals :
       HostCall(id, args, junk)
  \/ HostPop
  \/ \E junk \in JunkVals : Call(junk)
  \/ CreateContext \/ PushInt8 \/ Add \/ Lt
  \/ Jmp \/ JmpIfFalse \/ Pop \/ GetName \/ SetName \/ DeclVar
  \/ Return
  \/ \E junk \in JunkVals : LoopStart(junk)

NestSpec == NestInit /\ [][NestNext]_vars

Next ==
  \/ \E id \in FuncIds, args \in ArgLists, junk \in JunkVals : HostCall(id, args, junk)
  \/ HostPop
  \/ CreateContext \/ PushInt8 \/ PushConst \/ PushUndefined \/ Add \/ Lt
  \/ SetMember \/ Jmp \/ JmpIfFalse \/ Pop \/ GetName \/ SetName \/ DeclVar
  \/ Return
  \/ \E junk \in JunkVals : LoopStart(junk)

Spec == Init /\ [][Next]_vars

\* ------------------------------------------------------------- claims
\* The claims read the latest entry `last`: its site, the arguments of the
\* call, the counter (cnt), the mark (dead) and the stored native entry
\* (entry) of the site before the entry, whether code generation ran (gen),
\* how the entry was executed (path: "interp", "native", or "panic" when the
\* process aborted), the native entry called (used), whether the inputs had
\* the recorded types (typed), and for an entry that was not interpreted the
\* observable outcome (got) next to that of interpreting it (ref).
AllNumbers(args) == \A i \in 1..Len(args) : args[i].t = "Number"
Threshold(kind) == IF kind = "func" THEN FUNC_THRESHOLD ELSE LOOP_THRESHOLD
\* the mark and the stored entry of the site of e, as they are now
SiteDead(e) == IF e.kind = "func" THEN Dead(e.site[1]) ELSE DeadLoop(e.site)
SiteStored(e) == IF e.kind = "func" THEN Stored(e.site[1]) ELSE StoredLoop(e.site)

\* C1: once a site is marked non-JITable it stays marked, and an entry of a
\* marked site runs no code generation and is interpreted.
C1_DeadSiteStaysInterpreted ==
  /\ [](last.dead => (~last.gen /\ last.path = "interp"))
  /\ [][/\ \A id \in DOMAIN func_info : Dead(id) => Dead(id)'
        /\ \A site \in DOMAIN loop_info : DeadLoop(site) => DeadLoop(site)']_vars

C1_Witness ==
  last.kind = "func" /\ last.dead /\ AllNumbers(last.args) /\ last.path = "interp"

\* C2: code generation runs at most once per site; a stored native entry is
\* never replaced; a native run calls the entry stored for the site, the one
\* stored before when there was one; and an entry that qualifies (a call of
\* at most 3 Numbers, a loop whose recorded locals hold Numbers and Bools of
\* the recorded types) at a site with a stored entry is run natively.
Qualifies(e) ==
  IF e.kind = "func" THEN AllNumbers(e.args) /\ Len(e.args) <= MAX_FUNCTION_PARAMS
  ELSE e.typed /\ \A i \in 1..Len(loop_info[e.site].local_vars) :
                    loop_info[e.site].local_vars[i][2] \in {"Number", "Bool"}

C3_NativeMatchesInterpretation == last.path = "native" => last.got = last.ref

\* C4: an entry in which code generation ran does not abort the VM, and
\* leaves the site either with a stored native entry or marked non-JITable
\* with the entry interpreted.
C4_CompileNeverAborts ==
  last.gen =>
    /\ status # "panic"
    /\ IsSome(SiteStored(last)) # SiteDead(last)
    /\ SiteDead(last) => last.path = "interp"

\* C5: a native entry is called only with inputs of the recorded types: every
\* argument of a call a Number, every recorded local of a loop a value of
\* its recorded type.
C5_NativeOnlyOnRecordedTypes == last.path = "native" => last.typed

\* C6: a call that passes more than 3 arguments is never run through a
\* native entry, whatever the state of the callee's site.
C6_NoNativeBeyondThreeArgs ==
  (last.kind = "func" /\ Len(last.args) > MAX_FUNCTION_PARAMS) => last.path # "native"

C6_Witness ==
  last.kind = "func" /\ Len(last.args) > MAX_FUNCTION_PARAMS /\ IsSome(last.entry)

\* C7: a region that contains construct, create_object, create_array,
\* set_member, push_this or push_arguments is never run natively, and code
\* generation for it fails (the site is marked non-JITable).
UnsupportedShape ==
  {"CONSTRUCT", "CREATE_OBJECT", "CREATE_ARRAY", "SET_MEMBER", "PUSH_THIS", "PUSH_ARGUMENTS"}
\* the byte offsets of the region of the site of e
Region(e) ==
  IF e.kind = "func" THEN 0..(Len(FuncIseq(e.site[1])) - 1)
  ELSE e.site[2]..(At(FuncIseq(e.site[1]), e.site[2]).arg - 1)
RegionUnsupported(e) ==
  \E p \in Region(e) : At(FuncIseq(e.site[1]), p).op \in UnsupportedShape

C7_UnsupportedRegionNeverNative ==
  (last.kind # "none" /\ RegionUnsupported(last)) =>
    (last.path # "native" /\ (last.gen => SiteDead(last)))

\* C8: an entry of a site whose counter is below the threshold (5 for a
\* function, 7 for a loop) runs no code generation and is interpreted.
C8_BelowThresholdInterpreted ==
  (last.kind # "none" /\ last.cnt < Threshold(last.kind)) =>
    (~last.gen /\ last.path = "interp")

C8_Witness ==
  /\ last.kind = "func" /\ AllNumbers(last.args)
  /\ last.cnt = FUNC_THRESHOLD - 1 /\ last.path = "interp"

\* C9 as stated: every call of a function and every arrival at a loop_start
\* increments the counter of the site by one.
C9_CounterIncrementedEveryEntry ==
  last.kind # "none" => Count(count, last.site) = last.cnt + 1

\* C9 amended: the counter of the site is incremented by one by an arrival
\* at a loop_start, and by a call whose arguments are all Numbers, while it
\* is below the threshold; any other entry leaves it as it was.
Counted(e) == e.cnt < Threshold(e.kind) /\ (e.kind = "loop" \/ AllNumbers(e.args))

C9_CounterIncrementedWhileCold ==
  last.kind # "none" =>
    Count(count, last.site) = last.cnt + (IF Counted(last) THEN 1 ELSE 0)

C9_Witness ==
  /\ last.kind = "loop" /\ last.cnt < LOOP_THRESHOLD
  /\ Count(count, last.site) = last.cnt + 1

PrevInst == At(FuncIseq(prev.s.cur_func_id), prev.s.pc)
PrevScope == prev.s.scope[Len(prev.s.scope)]
PrevTop == prev.s.stack[Len(prev.s.stack)]
PrevName == ConstString[PrevInst.arg]
\* the step was a CALL of a user function / one that entered a frame
CalledFunction == prev.op = "CALL" /\ prev.call.callee.t = "Function"
EnteredFunction == CalledFunction /\ Len(frames) > Len(prev.s.frames)
Argc == Len(prev.call.args)

\* the scope records from cid to the root of its parent chain, and the
\* positions in it of the records that define name
RECURSIVE Chain(_, _)
Chain(cos, cid) ==
  IF cos[cid].parent = 0 THEN <<cid>> ELSE <<cid>> \o Chain(cos, cos[cid].parent)
Defining(cos, chain, name) == {k \in 1..Len(chain) : Has(cos[chain[k]].vals, name)}
Nearest(S) == CHOOSE k \in S : \A j \in S : k <= j

\* C11: a call that completes without error replaces the callee and its argc
\* arguments by exactly one value: the stack height afterwards is the height
\* before the call opcode minus argc, and pc is the instruction after the
\* call.  For a builtin or a natively run function the CALL step itself
\* completes the call; for an interpreted function the RETURN does, and the
\* value is the callee's stack top at the return.
C11_CallReplacesCalleeAndArgs ==
  /\ (prev.op = "CALL" /\ prev.call.callee.t \in {"Function", "BuiltinFunction"}
      /\ status = "ok" /\ Len(frames) = Len(prev.s.frames))
     => /\ Len(stack) = prev.call.height - Argc
        /\ SubSeq(stack, 1, Len(stack) - 1) = SubSeq(prev.s.stack, 1, Len(stack) - 1)
        /\ pc = prev.call.pc + 5
  /\ (prev.op = "RETURN" /\ prev.call.callee.t = "Function" /\ status = "ok")
     => /\ Len(stack) = prev.call.height - Argc
        /\ stack[Len(stack)] = PrevTop
        /\ pc = prev.call.pc + 5

C11_Witness ==
  /\ prev.op = "RETURN" /\ prev.call.callee.t = "Function" /\ Argc = 1
  /\ status = "ok" /\ prev.call.height > Argc + 1
\* the other two ways a call completes (they are reached as well)
C11_NativeReached ==
  /\ CalledFunction /\ last.path = "native" /\ status = "ok"
  /\ Len(frames) = Len(prev.s.frames) /\ prev.call.height > Argc + 1
C11_BuiltinReached ==
  /\ prev.op = "CALL" /\ prev.call.callee.t = "BuiltinFunction" /\ Argc = 2
  /\ prev.call.height > Argc + 1

\* the formal parameters of the called function that are not rest parameters
\* and receive an argument
BoundFormals ==
  {i \in 0..(Argc - 1) : i < Len(FuncParams(prev.call.callee.v))
                         /\ ~FuncParams(prev.call.callee.v)[i + 1][2]}
FormalValue(i) == callobjs[CurScope(State)].vals[FuncParams(prev.call.callee.v)[i + 1][1]]

\* C12 (as stated): with the last argument nearest the top of the stack, i.e.
\* argument i at height (height of the callee) - argc + i, call binds formal
\* i to argument i
C12_BindsLastArgumentOnTop ==
  EnteredFunction =>
    \A i \in BoundFormals : FormalValue(i) = prev.s.stack[prev.call.height - Argc + i]

\* C12 (amended): call binds formal i to the i-th value it pops after the
\* callee: the arguments lie below the callee with the FIRST argument nearest
\* the top of the stack
C12_BindsFirstArgumentOnTop ==
  EnteredFunction =>
    \A i \in BoundFormals : FormalValue(i) = prev.s.stack[prev.call.height - 1 - i]

C12_Witness ==
  /\ EnteredFunction /\ Argc = 2 /\ BoundFormals = {0, 1}
  /\ prev.call.args[1] # prev.call.args[2]
  /\ FormalValue(0) = prev.call.args[1] /\ FormalValue(1) = prev.call.args[2]

\* C13: every activation gets a fresh variable map.  A call enters a record
\* under a handle that was not in use, holding nothing but the bound
\* parameters, and leaves every existing record as it was; a local
\* declaration changes the record of the running activation only; no record
\* is the scope of two activations.
C13_FreshVariableMap ==
  /\ EnteredFunction =>
       /\ CurScope(State) \notin DOMAIN prev.s.callobjs
       /\ DOMAIN callobjs[CurScope(State)].vals
            \subseteq {FuncParams(prev.call.callee.v)[i][1] :
                         i \in 1..Len(FuncParams(prev.call.callee.v))}
       /\ \A c \in DOMAIN prev.s.callobjs : callobjs[c] = prev.s.callobjs[c]
  /\ prev.op = "DECL_VAR" =>
       \A c \in DOMAIN prev.s.callobjs \ {PrevScope} : callobjs[c] = prev.s.callobjs[c]
  /\ \A i, j \in 1..Len(scope) : scope[i] = scope[j] => i = j

\* two activations of rec are live, each with its own binding of t
C13_Witness ==
  \E i, j \in 1..Len(scope) :
    /\ i < j /\ Has(callobjs[scope[i]].vals, "t") /\ Has(callobjs[scope[j]].vals, "t")
    /\ callobjs[scope[i]].vals["t"] # callobjs[scope[j]].vals["t"]
    /\ prev.op = "DECL_VAR"

\* the formals of the called function and the index (from 1) of its rest
\* parameter, 0 when it has none
CalleeParams == FuncParams(prev.call.callee.v)
RestIndex ==
  IF \E k \in 1..Len(CalleeParams) : CalleeParams[k][2]
  THEN CHOOSE k \in 1..Len(CalleeParams) : CalleeParams[k][2]
  ELSE 0
\* the arguments of the call from position k (from 1) onward, in order
ArgsFrom(k) == SubSeq(prev.call.args, k, Argc)

\* C14: for every argument count, a rest parameter is bound to an Array of
\* exactly the arguments from its index onward, in order (an empty Array
\* when there are none); without a rest parameter the arguments beyond the
\* formals are appended in order to the record's rest list
C14_RestParameterBound ==
  EnteredFunction =>
    IF RestIndex # 0
    THEN LET vals == callobjs[CurScope(State)].vals
             name == CalleeParams[RestIndex][1]
         IN /\ Has(vals, name)
            /\ vals[name].t = "Array"
            /\ arrays[vals[name].v].elems = ArgsFrom(RestIndex)
    ELSE callobjs[CurScope(State)].arg_rest_vals = ArgsFrom(Len(CalleeParams) + 1)

\* the half of C14 that the code does implement: a rest parameter that receives
\* at least one argument, and the rest list of a function without one
C14_RestBoundWhenReached ==
  (EnteredFunction /\ (RestIndex = 0 \/ Argc >= RestIndex)) =>
    IF RestIndex # 0
    THEN LET vals == callobjs[CurScope(State)].vals
             name == CalleeParams[RestIndex][1]
         IN /\ Has(vals, name)
            /\ vals[name].t = "Array"
            /\ arrays[vals[name].v].elems = ArgsFrom(RestIndex)
    ELSE callobjs[CurScope(State)].arg_rest_vals = ArgsFrom(Len(CalleeParams) + 1)

\* the number of arguments of the call whose activation is running
RunningArgc == Len(calls[Len(calls)].args)
ReadArguments(member) ==
  /\ prev.op = "GET_MEMBER" /\ status = "ok" /\ calls # <<>>
  /\ prev.s.stack[Len(prev.s.stack) - 1].t = "Arguments"
  /\ PrevTop = member

\* C15: arguments.length is the number of arguments passed to the running
\* call, whether fewer or more than the formals and with or without a rest
\* parameter
C15_ArgumentsLengthIsArgc ==
  ReadArguments(String(2)) => stack[Len(stack)] = Number(RunningArgc)

\* what the code returns instead: the number of formals plus the length of
\* the rest list
C15_ArgumentsLengthIsFormalsPlusRest ==
  ReadArguments(String(2)) =>
    stack[Len(stack)] =
      Number(Len(FuncParams(prev.s.cur_func_id))
             + Len(prev.s.callobjs[PrevScope].arg_rest_vals))

\* the value a name has in the record cid: that of the nearest record on the
\* parent chain that defines it (the name must be defined on the chain)
NameDefined(cos, cid, name) == Defining(cos, Chain(cos, cid), name) # {}
NameValue(cos, cid, name) ==
  cos[Chain(cos, cid)[Nearest(Defining(cos, Chain(cos, cid), name))]].vals[name]
\* the formals of the running activation, and what reading arguments[i]
\* yields in the current state
RunningParams == prev.s.callobjs[PrevScope].params
ArgumentsRead(i) == get_property(State, Arguments, Number(i))
\* the step wrote arguments[i] / read arguments[i]
WroteArguments ==
  /\ prev.op = "SET_MEMBER" /\ Len(prev.s.stack) >= 3
  /\ prev.s.stack[Len(prev.s.stack) - 1].t = "Arguments"
  /\ PrevTop.t = "Number" /\ PrevTop.v >= 0
WrittenValue == prev.s.stack[Len(prev.s.stack) - 2]
ReadArgumentsAt ==
  /\ prev.op = "GET_MEMBER" /\ status = "ok"
  /\ prev.s.stack[Len(prev.s.stack) - 1].t = "Arguments"
  /\ PrevTop.t = "Number" /\ PrevTop.v >= 0
RestAfterWrite(rest, k, val) ==
  IF k < Len(rest) THEN [rest EXCEPT ![k + 1] = val] ELSE rest

\* C16: arguments[i] and the i-th formal are one variable.  After
\* arguments[i] = v with i below the number of formals, the formal's name
\* and arguments[i] both read v; after an assignment to or a declaration of
\* a formal's name, arguments[i] reads the assigned value; a read of
\* arguments[i] yields the formal's value.  Indices at or beyond the formals
\* read and write the rest list and no variable.
C16_ArgumentsAliasFormals ==
  /\ WroteArguments =>
       IF PrevTop.v < Len(RunningParams)
       THEN /\ NameValue(callobjs, PrevScope, RunningParams[PrevTop.v + 1][1]) = WrittenValue
            /\ ArgumentsRead(PrevTop.v) = Some(WrittenValue)
       ELSE /\ \A c \in DOMAIN callobjs : callobjs[c].vals = prev.s.callobjs[c].vals
            /\ callobjs[PrevScope].arg_rest_vals
                 = RestAfterWrite(prev.s.callobjs[PrevScope].arg_rest_vals,
                                  PrevTop.v - Len(RunningParams), WrittenValue)
  /\ prev.op \in {"SET_NAME", "DECL_VAR"} =>
       \A i \in 0..(Len(RunningParams) - 1) :
         RunningParams[i + 1][1] = PrevName => ArgumentsRead(i) = Some(PrevTop)
  /\ ReadArgumentsAt =>
       IF PrevTop.v < Len(RunningParams)
       THEN stack[Len(stack)]
              = NameValue(prev.s.callobjs, PrevScope, RunningParams[PrevTop.v + 1][1])
       ELSE LET rest == prev.s.callobjs[PrevScope].arg_rest_vals
                k == PrevTop.v - Len(RunningParams)
            IN stack[Len(stack)] = IF k < Len(rest) THEN rest[k + 1] ELSE Undefined

\* arguments[0] = 7 changed the formal a
C16_Witness ==
  /\ WroteArguments /\ PrevTop.v = 0
  /\ callobjs[PrevScope].vals["a"] = WrittenValue
  /\ prev.s.callobjs[PrevScope].vals["a"] # WrittenValue
\* further cases of C16 that are reached
C16_RestWritten ==
  /\ WroteArguments /\ PrevTop.v >= Len(RunningParams)
  /\ callobjs[PrevScope].arg_rest_vals # prev.s.callobjs[PrevScope].arg_rest_vals
C16_RestWriteIgnored ==
  /\ WroteArguments /\ PrevTop.v >= Len(RunningParams)
  /\ callobjs = prev.s.callobjs
C16_FormalAssigned ==
  /\ prev.op = "SET_NAME" /\ PrevName = "b" /\ ArgumentsRead(1) = Some(Number(8))
C16_FormalRead ==
  /\ ReadArgumentsAt /\ PrevTop.v = 1 /\ stack[Len(stack)] = Number(8)
C16_RestRead ==
  /\ ReadArgumentsAt /\ PrevTop.v = 2 /\ stack[Len(stack)] = Number(9)

\* the parent chain of the scope the step ran in, and the positions on it
\* of the records that defined the step's name operand
PrevChain == Chain(prev.s.callobjs, PrevScope)
PrevDefining == Defining(prev.s.callobjs, PrevChain, PrevName)

\* C17: get_name pushes the binding of the nearest record on the parent
\* chain that defines the name; if no record on the chain defines it, it
\* fails with the Reference error "reference error: '<name>' is not
\* defined" and pushes nothing
C17_GetNameNearestOrReferenceError ==
  prev.op = "GET_NAME" =>
    IF PrevDefining # {}
    THEN /\ status = "ok"
         /\ stack = Append(prev.s.stack,
                           prev.s.callobjs[PrevChain[Nearest(PrevDefining)]].vals[PrevName])
    ELSE /\ status = "Reference"
         /\ msg = <<"reference error: '", PrevName, "' is not defined">>
         /\ stack = prev.s.stack

\* the error case: zz is defined nowhere
C17_Witness ==
  /\ prev.op = "GET_NAME" /\ PrevDefining = {} /\ status = "Reference"
  /\ Len(PrevChain) >= 2
\* the lookup case where two records on the chain define the name and the
\* running one does not (inc reading c from mk's record, not the global c)
C17_NearestReached ==
  /\ prev.op = "GET_NAME" /\ Cardinality(PrevDefining) >= 2 /\ 1 \notin PrevDefining
  /\ prev.s.callobjs[PrevChain[2]].vals[PrevName]
       # prev.s.callobjs[PrevChain[3]].vals[PrevName]

\* the record set_name must write: the nearest that defines the name, else
\* the root of the chain
PrevTarget ==
  IF PrevDefining # {} THEN PrevChain[Nearest(PrevDefining)]
  ELSE PrevChain[Len(PrevChain)]

\* C18: set_name writes the name in the nearest record on the parent chain
\* that defines it and changes no other record; if no record defines it the
\* name is inserted in the root record and no other record changes
C18_SetNameNearestOrRoot ==
  prev.op = "SET_NAME" =>
    /\ callobjs = [prev.s.callobjs EXCEPT ![PrevTarget].vals = Put(@, PrevName, PrevTop)]
    /\ stack = SubSeq(prev.s.stack, 1, Len(prev.s.stack) - 1)

\* inc assigns c: mk's record (neither the running record nor the root) is
\* written although the global record defines c too
C18_Witness ==
  /\ prev.op = "SET_NAME" /\ PrevDefining = {2, 3}
  /\ callobjs[PrevChain[2]].vals[PrevName] = PrevTop
  /\ prev.s.callobjs[PrevChain[2]].vals[PrevName] # PrevTop
  /\ callobjs[PrevChain[3]] = prev.s.callobjs[PrevChain[3]]
\* the name is defined nowhere and is inserted in the root record
C18_RootInsertReached ==
  /\ prev.op = "SET_NAME" /\ PrevDefining = {} /\ Len(PrevChain) >= 2
  /\ Has(callobjs[GlobalScope].vals, PrevName)

\* C19: decl_var writes the name in the current scope record's map only;
\* every other record, the parents that define the same name included, is
\* unchanged
C19_DeclVarWritesCurrentRecord ==
  prev.op = "DECL_VAR" =>
    /\ callobjs = [prev.s.callobjs EXCEPT ![PrevScope].vals = Put(@, PrevName, PrevTop)]
    /\ stack = SubSeq(prev.s.stack, 1, Len(prev.s.stack) - 1)

\* mk declares c while the global record defines c with another value
C19_Witness ==
  /\ prev.op = "DECL_VAR" /\ PrevDefining # {} /\ 1 \notin PrevDefining
  /\ callobjs[PrevScope].vals[PrevName] = PrevTop
  /\ callobjs[PrevChain[Nearest(PrevDefining)]].vals[PrevName] # PrevTop

\* the scope a Function value resolves its free variables through (0: none)
FunctionValues ==
  {stack[i] : i \in {j \in 1..Len(stack) : stack[j].t = "Function"}}
  \cup UNION {{callobjs[c].vals[n] : n \in {m \in DOMAIN callobjs[c].vals :
                                               callobjs[c].vals[m].t = "Function"}} :
              c \in DOMAIN callobjs}
IsNumber(val) == val.t = "Number"

\* C20: set_cur_callobj makes the scope record executing at that moment the
\* parent of the Function value on top of the stack; every later call of
\* that value enters a record whose parent is that same record, unchanged by
\* the call, also after the activation that created the function has
\* returned and left the scope stack; the record of a function value that is
\* still held is never dropped, and what one call assigns to a free variable
\* the next call reads (dClo: c starts at 0, five calls k(x) and one k(y)
\* return 5x + y).
C20_ClosureKeepsDefiningScope ==
  /\ (prev.op = "SET_CUR_CALLOBJ" /\ PrevTop.t = "Function")
       => /\ stack[Len(stack)] = [PrevTop EXCEPT !.parent = PrevScope]
          /\ callobjs = prev.s.callobjs
  /\ EnteredFunction =>
       /\ callobjs[CurScope(State)].parent = prev.call.callee.parent
       /\ prev.call.callee.parent # 0 =>
            /\ prev.call.callee.parent \in DOMAIN prev.s.callobjs
            /\ callobjs[prev.call.callee.parent]
                 = prev.s.callobjs[prev.call.callee.parent]
  /\ \A fv \in FunctionValues : fv.parent = 0 \/ fv.parent \in DOMAIN callobjs
  /\ (prev.op = "RETURN" /\ prev.s.cur_func_id = 16 /\ status = "ok"
      /\ IsNumber(prev.s.callobjs[PrevScope].vals["x"])
      /\ IsNumber(prev.s.callobjs[PrevScope].vals["y"]))
       => stack[Len(stack)] = Number(5 * prev.s.callobjs[PrevScope].vals["x"].v
                                     + prev.s.callobjs[PrevScope].vals["y"].v)

\* inc is entered after mk returned: its parent record is on no scope stack
\* any more and holds the c that earlier calls of inc assigned
C20_Witness ==
  /\ EnteredFunction /\ prev.call.callee.v = 12
  /\ \A i \in 1..Len(scope) : scope[i] # prev.call.callee.parent
  /\ callobjs[prev.call.callee.parent].vals["c"] \notin {Number(0), Number(100)}
  /\ Unwrap(get_value(callobjs, CurScope(State), "c"))
       = callobjs[prev.call.callee.parent].vals["c"]
\* the whole of dClo ran with Number inputs
C20_ResultReached ==
  /\ prev.op = "RETURN" /\ prev.s.cur_func_id = 16 /\ status = "ok"
  /\ stack[Len(stack)] = Number(7)

\* ------------------------------------------------ objects, arrays, construction
\* the step was a CONSTRUCT of a user function that entered its frame / the
\* RETURN that ended such a frame
ConstructEntered ==
  /\ prev.op = "CONSTRUCT" /\ prev.call.callee.t = "Function"
  /\ Len(frames) > Len(prev.s.frames)
ConstructReturned ==
  /\ prev.op = "RETURN" /\ status = "ok"
  /\ IsSome(prev.s.frames[Len(prev.s.frames)].ctor)
\* the `this` of the record the constructor ran in
ConstructedThis == prev.s.callobjs[PrevScope].this
\* CONSTRUCT enters the callee with a new object as `this`, whose __proto__ is
\* the callee's `prototype`
ConstructAllocates ==
  ConstructEntered =>
    LET this == callobjs[CurScope(State)].this
    IN /\ this.t = "Object" /\ this.v \notin DOMAIN prev.s.objs
       /\ objs[this.v] = ("__proto__" :> prev.s.objs[FuncObj(prev.call.callee)]["prototype"])
       /\ \A k \in DOMAIN prev.s.objs : objs[k] = prev.s.objs[k]
       /\ cur_func_id = prev.call.callee.v /\ pc = 0
       /\ stack = PopN(prev.s.stack, Argc + 1)

\* C21 as stated: construct on a user Function allocates a fresh object whose
\* __proto__ is the callee's prototype and runs the callee with it as `this`;
\* after a normal return the top of the stack is the returned value when that
\* is an Object, an Array or a Function, and the fresh object otherwise.
C21_KeepsObjectArrayFunction ==
  /\ ConstructAllocates
  /\ ConstructReturned =>
       /\ stack = Append(PopN(prev.s.stack, Len(prev.s.stack) - prev.call.height
                                              + Argc + 1),
                         stack[Len(stack)])
       /\ stack[Len(stack)] = IF PrevTop.t \in {"Object", "Array", "Function"}
                              THEN PrevTop ELSE ConstructedThis

\* C21 amended: as above, but the returned value also stays when it is a
\* BuiltinFunction; the fresh object replaces a returned Number, Bool, String
\* or Undefined.
C21_KeepsObjectArrayFunctionBuiltin ==
  /\ ConstructAllocates
  /\ ConstructReturned =>
       /\ stack = Append(PopN(prev.s.stack, Len(prev.s.stack) - prev.call.height
                                              + Argc + 1),
                         stack[Len(stack)])
       /\ stack[Len(stack)] = IF PrevTop.t \in {"Object", "Array", "Function",
                                                "BuiltinFunction"}
                              THEN PrevTop ELSE ConstructedThis

\* new D(log) returned the builtin, and it stayed on the stack
C21_Witness ==
  /\ ConstructReturned /\ PrevTop.t = "BuiltinFunction"
  /\ stack[Len(stack)] = PrevTop /\ ConstructedThis.t = "Object"
\* new C(x) left the constructed object, new D([x]) the returned array
C21_FreshObjectReached ==
  /\ ConstructReturned /\ PrevTop = Undefined
  /\ stack[Len(stack)] = ConstructedThis
  /\ objs[ConstructedThis.v]["x"] \in ObjInputVals
C21_ArrayKeptReached ==
  ConstructReturned /\ PrevTop.t = "Array" /\ stack[Len(stack)] = PrevTop

\* the operands of the GET_MEMBER / SET_MEMBER just executed: the member is on
\* top, the parent below it, and for SET_MEMBER the value below the parent
PrevMember == prev.s.stack[Len(prev.s.stack)]
PrevParent == prev.s.stack[Len(prev.s.stack) - 1]
PrevValue == prev.s.stack[Len(prev.s.stack) - 2]
\* the maps along the __proto__ links from ref, at most n links followed
RECURSIVE ProtoChain(_, _, _)
ProtoChain(s, ref, n) ==
  LET obj == MapAt(s.objs, s.arrays, ref)
  IN IF n > 0 /\ Has(obj, "__proto__") /\ HasMap(obj["__proto__"])
     THEN <<obj>> \o ProtoChain(s, MapRef(obj["__proto__"]), n - 1)
     ELSE <<obj>>
\* the value under key in the first map of the chain that has it
FirstAlong(chain, key) ==
  IF \E i \in 1..Len(chain) : Has(chain[i], key)
  THEN chain[CHOOSE i \in 1..Len(chain) :
               Has(chain[i], key) /\ \A j \in 1..(i - 1) : ~Has(chain[j], key)][key]
  ELSE Undefined
\* a GET_MEMBER on an Object, Function or BuiltinFunction returned
GotProperty ==
  /\ prev.op = "GET_MEMBER" /\ status = "ok"
  /\ PrevParent.t \in {"Object", "Function", "BuiltinFunction"}

\* C22: a property lookup on an Object, Function or BuiltinFunction returns the
\* value under the key in the first map along the __proto__ chain that contains
\* it, and Undefined when the chain ends at a map without __proto__ and no map
\* of it has the key.
C22_LookupFollowsProtoChain ==
  GotProperty =>
    /\ stack = Append(PopN(prev.s.stack, 2),
                      FirstAlong(ProtoChain(prev.s, MapRef(PrevParent), HeapSize(prev.s)),
                                 to_string(PrevMember)))
    /\ objs = prev.s.objs /\ arrays = prev.s.arrays

\* q.k was found in p, the second map of q's chain
C22_Witness ==
  /\ GotProperty /\ to_string(PrevMember) = "k"
  /\ ~Has(prev.s.objs[PrevParent.v], "k")
  /\ Len(ProtoChain(prev.s, MapRef(PrevParent), HeapSize(prev.s))) = 2
  /\ stack[Len(stack)] \in ObjInputVals
\* q.zz ran off the end of the chain; C.call was found behind the function's
\* own map
C22_ChainEndReached ==
  /\ GotProperty /\ to_string(PrevMember) = "zz"
  /\ Len(ProtoChain(prev.s, MapRef(PrevParent), HeapSize(prev.s))) = 2
  /\ stack[Len(stack)] = Undefined
C22_FunctionProtoReached ==
  /\ GotProperty /\ PrevParent.t = "Function" /\ to_string(PrevMember) = "call"
  /\ stack[Len(stack)].t = "BuiltinFunction"

\* every property map of the heap
MapRefs(s) ==
  {<<"obj", k>> : k \in DOMAIN s.objs} \cup {<<"ary", k>> : k \in DOMAIN s.arrays}
\* following __proto__ from ref comes to an end: with HeapSize maps in all, a
\* chain that is still going after HeapSize links has come back to a map
Acyclic(s, ref) == Len(ProtoChain(s, ref, HeapSize(s))) <= HeapSize(s)

\* C23: property lookup terminates on every object graph the programs can
\* build: no sequence of create_object, create_array, construct and set_member
\* leaves a __proto__ cycle, and every GET_MEMBER on a value with a map returns.
C23_LookupTerminates ==
  /\ \A ref \in MapRefs(State) : Acyclic(State, ref)
  /\ (prev.op = "GET_MEMBER" /\ HasMap(PrevParent)) =>
       IsSome(get_property(prev.s, PrevParent, PrevMember))

\* set_member alone closes a cycle: after p.__proto__ = q, with q.__proto__ = p
C23_CycleReached ==
  /\ prev.op = "SET_MEMBER" /\ status = "ok" /\ PrevParent.t = "Object"
  /\ ~Acyclic(State, MapRef(PrevParent))
  /\ \A ref \in MapRefs(prev.s) : Acyclic(prev.s, ref)
\* and the lookup of a key no map of the cycle has does not return
C23_LookupDivergesReached ==
  /\ prev.op = "GET_MEMBER" /\ PrevParent.t = "Object"
  /\ ~IsSome(get_property(prev.s, PrevParent, PrevMember))
  /\ status = "panic"
\* apart from set_member on the key __proto__, no step changes a __proto__
\* link of an existing map or creates a map on a cycle
C23_OnlySetMemberLinks ==
  (prev.op # "none" /\ ~(prev.op = "SET_MEMBER" /\ to_string(PrevMember) = "__proto__")) =>
    \A ref \in MapRefs(prev.s) : Acyclic(prev.s, ref) => Acyclic(State, ref)

\* the step assigned the member __proto__ of the array a
AssignedProtoOf(a) ==
  /\ prev.op = "SET_MEMBER" /\ PrevParent = Array(a)
  /\ PrevMember.t = "String" /\ to_string(PrevMember) = "__proto__"
HasArrayProto(ary) ==
  Has(ary.obj, "__proto__") /\ ary.obj["__proto__"] = Array(ArrayPrototype)

\* C24 as stated: in every reachable state every Array value has a __proto__
\* entry in its auxiliary map that points at the shared array prototype.
C24_EveryArrayHasProto ==
  \A a \in DOMAIN arrays : HasArrayProto(arrays[a])

\* C24 amended: every Array value the programs create has, when created, a
\* __proto__ entry pointing at the shared array prototype, and keeps it until
\* the program assigns the __proto__ member of that array; the shared
\* prototype is itself an Array value and has no __proto__ entry of its own
\* unless the program assigns one.
C24_ArrayProtoUntilAssigned ==
  prev.op # "none" =>
    /\ \A a \in DOMAIN arrays \ DOMAIN prev.s.arrays : HasArrayProto(arrays[a])
    /\ \A a \in DOMAIN prev.s.arrays :
         /\ a \in DOMAIN arrays
         /\ ~AssignedProtoOf(a) =>
              /\ Has(arrays[a].obj, "__proto__") = Has(prev.s.arrays[a].obj, "__proto__")
              /\ Has(arrays[a].obj, "__proto__") =>
                   arrays[a].obj["__proto__"] = prev.s.arrays[a].obj["__proto__"]
    /\ ( /\ \A a \in DOMAIN prev.s.arrays \ {ArrayPrototype} :
               HasArrayProto(prev.s.arrays[a])
          /\ ~Has(prev.s.arrays[ArrayPrototype].obj, "__proto__")
          /\ \A b \in DOMAIN prev.s.arrays : ~AssignedProtoOf(b) )
       => /\ \A a \in DOMAIN arrays \ {ArrayPrototype} : HasArrayProto(arrays[a])
          /\ ~Has(arrays[ArrayPrototype].obj, "__proto__")

\* p.__proto__ read back the shared prototype after p had been written at
\* indices and grown
C24_Witness ==
  /\ prev.op = "GET_MEMBER" /\ status = "ok" /\ PrevParent.t = "Array"
  /\ PrevParent.v # ArrayPrototype
  /\ to_string(PrevMember) = "__proto__" /\ PrevMember.t = "String"
  /\ stack[Len(stack)] = Array(ArrayPrototype)
  /\ Len(arrays[PrevParent.v].elems) > 2
\* p.__proto__ = x replaced the link of an array the program created
C24_OverwrittenReached ==
  /\ \E a \in DOMAIN arrays : AssignedProtoOf(a) /\ a # ArrayPrototype
                                /\ ~HasArrayProto(arrays[a])
  /\ status = "ok"

\* the step stored a value at a non-negative integer index of an array / read
\* an array at such an index
StoredAtIndex ==
  /\ prev.op = "SET_MEMBER" /\ status = "ok" /\ PrevParent.t = "Array"
  /\ PrevMember.t = "Number" /\ PrevMember.v >= 0
ReadAtIndex ==
  /\ prev.op = "GET_MEMBER" /\ status = "ok" /\ PrevParent.t = "Array"
  /\ PrevMember.t = "Number" /\ PrevMember.v >= 0
\* element n (from 0) of the array before / after the step
ElemBefore(n) == prev.s.arrays[PrevParent.v].elems[n + 1]
ElemAfter(n) == arrays[PrevParent.v].elems[n + 1]

\* C25: assigning to an array at a non-negative integer index n stores the
\* value; when n >= length the store is grown with Empty padding and length
\* becomes n + 1; a later read of an index in [0, length) returns the value
\* stored there, or Undefined for padding, and a read at an index >= length
\* returns Undefined.
C25_IndexedStoreAndRead ==
  /\ StoredAtIndex =>
       LET n == PrevMember.v
           old == prev.s.arrays[PrevParent.v]
           new == arrays[PrevParent.v]
       IN /\ ElemAfter(n) = PrevValue
          /\ new.length = IF n >= old.length THEN n + 1 ELSE old.length
          /\ Len(new.elems) = IF n >= Len(old.elems) THEN n + 1 ELSE Len(old.elems)
          /\ \A i \in 0..(Len(new.elems) - 1) :
               i # n => ElemAfter(i) = IF i < Len(old.elems) THEN ElemBefore(i) ELSE Empty
          /\ new.obj = old.obj
          /\ stack = PopN(prev.s.stack, 3)
  /\ ReadAtIndex =>
       LET n == PrevMember.v
           old == prev.s.arrays[PrevParent.v]
       IN /\ stack[Len(stack)] =
               IF n >= old.length \/ ElemBefore(n) = Empty THEN Undefined ELSE ElemBefore(n)
          /\ arrays = prev.s.arrays

\* p[3] = x on the two-element array grew it to length 4 with one padding slot
C25_Witness ==
  /\ StoredAtIndex /\ PrevMember.v = 3 /\ prev.s.arrays[PrevParent.v].length = 2
  /\ arrays[PrevParent.v].length = 4 /\ ElemAfter(2) = Empty /\ ElemAfter(3) = PrevValue
\* reads of padding, of a value written earlier and beyond the length
C25_PaddingReadReached ==
  /\ ReadAtIndex /\ PrevMember.v = 2 /\ ElemBefore(2) = Empty
  /\ stack[Len(stack)] = Undefined
C25_WrittenReadReached ==
  /\ ReadAtIndex /\ PrevMember.v = 1 /\ stack[Len(stack)] = Number(9)
C25_BeyondLengthReached ==
  /\ ReadAtIndex /\ PrevMember.v = 5 /\ prev.s.arrays[PrevParent.v].length = 4
  /\ stack[Len(stack)] = Undefined
\* after p.length = 1 and p[2] = y the length is 3 over a store of 4 slots,
\* and index 1 still reads the value written before the length was assigned
C25_ShrunkReadReached ==
  /\ ReadAtIndex /\ PrevMember.v = 1 /\ prev.s.arrays[PrevParent.v].length = 3
  /\ Len(prev.s.arrays[PrevParent.v].elems) = 4
  /\ stack[Len(stack)] \in {Number(9)} \cup ObjInputVals

\* the step was one of the eight comparisons; its operands
Compared == \E i \in 1..Len(CmpOps) : prev.op = CmpOps[i]
PrevRhs == prev.s.stack[Len(prev.s.stack)]
PrevLhs == prev.s.stack[Len(prev.s.stack) - 1]

\* C27: eq, ne, seq, sne, lt, le, gt and ge push a Bool when both operands are
\* of the same value kind, and fail only when the kinds differ.
C27_SameKindCompares ==
  Compared =>
    /\ PrevLhs.t = PrevRhs.t =>
         /\ status = "ok"
         /\ Len(stack) = Len(prev.s.stack) - 1 /\ stack[Len(stack)].t = "Bool"
    /\ status # "ok" => PrevLhs.t # PrevRhs.t

\* true == true fails with Unimplemented, and so does an Object against itself
C27_BoolPairFailsReached ==
  /\ Compared /\ PrevLhs = Bool(TRUE) /\ PrevRhs = Bool(TRUE)
  /\ status = "Unimplemented"
C27_ObjectPairFailsReached ==
  /\ prev.op = "SEQ" /\ PrevLhs = Object(1) /\ PrevRhs = Object(1)
  /\ status = "Unimplemented"
\* what the handlers do: a Bool for two Numbers or two Strings, Unimplemented
\* for every other pair, of one kind or of two
C27_NumberOrStringPairs ==
  Compared =>
    IF PrevLhs.t = PrevRhs.t /\ PrevLhs.t \in {"Number", "String"}
    THEN /\ status = "ok" /\ stack[Len(stack)].t = "Bool"
         /\ Len(stack) = Len(prev.s.stack) - 1
    ELSE status = "Unimplemented"
C27_StringPairReached ==
  /\ prev.op = "NE" /\ PrevLhs.t = "String" /\ PrevRhs.t = "String"
  /\ stack[Len(stack)] = Bool(FALSE)

\* ------------------------------------------------------------ error propagation
\* the kinds of RuntimeError a handler can return
RuntimeErrors == {"Unknown", "Type", "Reference", "Unimplemented"}

\* C26: when a handler returns an error, at any call depth, run returns that
\* same error and no further opcode is executed; and every opcode handler ends
\* by returning success or an error.
C26_ErrorsPropagateHandlersReturn ==
  /\ prev.op # "none" => prev.s.status = "ok"
  /\ status \in {"ok"} \cup RuntimeErrors

\* an error raised two calls deep is the outcome of the run: rec compared a
\* Bool with a Number
C26_DeepErrorReached ==
  /\ status \in RuntimeErrors /\ Len(frames) >= 2
  /\ prev.s.status = "ok" /\ Len(prev.s.frames) = Len(frames)
\* a handler that neither succeeds nor returns an error: in ap(x) the read
\* of arguments[1] unwraps the reference error for the unbound formal b
C26_PanicReached ==
  /\ status = "panic" /\ prev.s.status = "ok" /\ prev.op = "GET_MEMBER"
  /\ PrevParent = Arguments /\ Len(frames) >= 2
\* the propagation half alone: no step is taken once the status is not ok
C26_NoStepAfterError ==
  prev.op # "none" => prev.s.status = "ok"

\* ------------------------------------------------------- native loop entries
\* the step was a LOOP_START whose region ran natively and returned
LoopNativeReturned ==
  prev.op = "LOOP_START" /\ last.kind = "loop" /\ last.path = "native"
\* the region of that loop and the destinations of its jumps that lie outside
LoopBgn == last.site[2]
LoopEnd == At(FuncIseq(last.site[1]), last.site[2]).arg
OuterTargets ==
  {l \in Labels(FuncIseq(last.site[1]), LoopBgn, LoopEnd, FALSE) :
     l < LoopBgn \/ l >= LoopEnd}

C28_ResumesAtEndOrOuterTarget ==
  LoopNativeReturned => pc \in {LoopEnd} \cup OuterTargets

C28_Witness ==
  /\ LoopNativeReturned /\ pc = LoopEnd /\ Unwrap(last.ref).status = "ok"
  /\ pc = Unwrap(last.ref).pc /\ last.typed

\* a stored loop function was entered with n a Bool where a Number was
\* recorded: it returned loop_end, while interpretation fails in the region
C28_ReusedOnOtherTypeReached ==
  /\ LoopNativeReturned /\ ~last.gen /\ ~last.typed /\ pc = LoopEnd
  /\ Unwrap(last.ref).status = "Unimplemented"
\* with every recorded local at its recorded type the resumed pc is the one
\* interpretation reaches
C28_TypedResumesWhereInterpretationLeaves ==
  (LoopNativeReturned /\ last.typed) =>
    /\ Unwrap(last.ref).status = "ok"
    /\ pc = Unwrap(last.ref).pc

\* the names the region [at, end) assigns with set_name or decl_var
RECURSIVE AssignedIn(_, _, _)
AssignedIn(iseq, at, end) ==
  IF at >= end THEN {}
  ELSE LET inst == At(iseq, at)
       IN (IF inst.op \in {"SET_NAME", "DECL_VAR"} THEN {ConstString[inst.arg]} ELSE {})
          \cup AssignedIn(iseq, at + get_inst_size(inst.op), end)
\* the cells the native run of the latest loop entry ended with, when a
\* mistyped box read as junk
NativeCells(junk) ==
  NativeRun(FuncIseq(last.site[1]), FALSE, LoopBgn, LoopEnd, LoopEnd, LoopBgn, <<>>,
            LocalCells(prev.s, loop_info[last.site].local_vars, junk)).cells
\* a cell as a value
Boxed(cell) == IF cell.k = "i1" THEN Bool(cell.v = 1) ELSE Number(cell.v)
\* the scope record holds the final native value of name, if the run gave
\* it one
WrittenBack(name, cells) ==
  Has(cells, name) =>
    get_value(callobjs, CurScope(State), name) = Some(Boxed(cells[name]))

\* C29: when a native loop entry returns, every variable the region assigned
\* with set_name or decl_var holds in the scope record its final native value,
\* the variables not yet bound in the local scope when the loop was compiled
\* included.
C29_AssignedVariablesWrittenBack ==
  LoopNativeReturned =>
    \E junk \in JunkVals :
      \A name \in AssignedIn(FuncIseq(last.site[1]), LoopBgn, LoopEnd) :
        WrittenBack(name, NativeCells(junk))

\* lv(1) entered the compiled loop before k was bound: the native run
\* assigned k, and the scope record has no k afterwards
C29_DeclaredInRegionLostReached ==
  /\ LoopNativeReturned /\ last.typed /\ last.site[1] = 19
  /\ Has(NativeCells(0), "k") /\ NativeCells(0)["k"].v = 0
  /\ ~Has(callobjs[CurScope(State)].vals, "k")
\* what is written back: the recorded locals
C29_RecordedLocalsWrittenBack ==
  LoopNativeReturned =>
    \E junk \in JunkVals :
      \A i \in 1..Len(loop_info[last.site].local_vars) :
        LET name == LocalName(loop_info[last.site].local_vars, i)
            cell == NativeCells(junk)[name]
        IN get_value(callobjs, CurScope(State), name)
             = Some(IF loop_info[last.site].local_vars[i][2] = "Bool"
                    THEN Bool(cell.v = 1) ELSE Number(cell.v))
C29_WrittenBackReached ==
  /\ LoopNativeReturned /\ last.typed /\ last.site[1] = 4
  /\ Has(NativeCells(0), "i") /\ WrittenBack("i", NativeCells(0))
  /\ NativeCells(0)["i"].v = 1
  /\ prev.s.callobjs[PrevScope].vals["i"] = Number(0)

\* the names the region [at, end) reads or writes
RECURSIVE NamesIn(_, _, _)
NamesIn(iseq, at, end) ==
  IF at >= end THEN {}
  ELSE LET inst == At(iseq, at)
       IN (IF inst.op \in {"GET_NAME", "SET_NAME", "DECL_VAR"}
           THEN {ConstString[inst.arg]} ELSE {})
          \cup NamesIn(iseq, at + get_inst_size(inst.op), end)
\* the step was a LOOP_START at which code generation ran
LoopCompiled == prev.op = "LOOP_START" /\ last.kind = "loop" /\ last.gen
\* the local names of the region that held, at that entry, a value of kind
\* other than Number and Bool
UntypedLocals ==
  {name \in NamesIn(FuncIseq(last.site[1]), LoopBgn, LoopEnd) :
     /\ Has(prev.s.callobjs[PrevScope].vals, name)
     /\ prev.s.callobjs[PrevScope].vals[name].t \notin {"Number", "Bool"}}

\* the kind of the value the local scope held for the name at that entry
PrevLocalKind(name) ==
  IF Has(prev.s.callobjs[PrevScope].vals, name)
  THEN prev.s.callobjs[PrevScope].vals[name].t ELSE "unbound"

\* C30: the compilation of a loop is aborted, and the site marked non-JITable,
\* whenever a local name read or written within the region holds at entry a
\* value that is neither a Number nor a Bool.
C30_UntypedLocalAbortsCompilation ==
  (LoopCompiled /\ UntypedLocals # {}) =>
    /\ loop_info[last.site].cannot_jit
    /\ ~IsSome(loop_info[last.site].raw_func)
    /\ last.path = "interp"

\* lp(1, "x") and lp(1, o): the loop was compiled with t a String, and with t
\* an Object, and the loop function stored
C30_StringLocalCompiledReached ==
  /\ LoopCompiled /\ PrevLocalKind("t") = "String"
  /\ IsSome(loop_info[last.site].raw_func) /\ ~loop_info[last.site].cannot_jit
  /\ last.path = "interp" /\ status = "ok"
C30_ObjectLocalCompiledReached ==
  /\ LoopCompiled /\ PrevLocalKind("t") = "Object"
  /\ IsSome(loop_info[last.site].raw_func) /\ ~loop_info[last.site].cannot_jit
\* the loop function compiled with t a String aborts the process when it is
\* entered with t a Number
C30_StringTypedLoopPanicsReached ==
  /\ prev.op = "LOOP_START" /\ last.kind = "loop" /\ ~last.gen /\ status = "panic"
  /\ \E i \in 1..Len(loop_info[last.site].local_vars) :
       loop_info[last.site].local_vars[i][2] = "String"
  /\ PrevLocalKind("t") = "Number"


\* --------------------------------------------- what loop_start leaves alone
\* the step was a LOOP_START
LoopStartStepped == prev.op = "LOOP_START" /\ last.kind = "loop"
\* the names of the recorded locals of the loop
RecordedNames ==
  {LocalName(loop_info[last.site].local_vars, i) :
     i \in 1..Len(loop_info[last.site].local_vars)}
\* the scope records are as before the step, but for the values of the
\* names in `names` in the record that was current
RecordsSameBut(names) ==
  /\ DOMAIN callobjs = DOMAIN prev.s.callobjs
  /\ \A c \in DOMAIN callobjs :
       /\ callobjs[c] = [prev.s.callobjs[c] EXCEPT !.vals = callobjs[c].vals]
       /\ DOMAIN callobjs[c].vals = DOMAIN prev.s.callobjs[c].vals
       /\ \A nm \in DOMAIN callobjs[c].vals :
            (c # PrevScope \/ nm \notin names) =>
              callobjs[c].vals[nm] = prev.s.callobjs[c].vals[nm]
\* the operand stack, the scope stack, the call history, the current function,
\* the frames and the heap are as before the step
RestUntouched ==
  /\ stack = prev.s.stack /\ scope = prev.s.scope /\ history = prev.s.history
  /\ cur_func_id = prev.s.cur_func_id /\ frames = prev.s.frames
  /\ objs = prev.s.objs /\ arrays = prev.s.arrays
  /\ function_return_types = prev.s.function_return_types
  /\ func_info = prev.s.func_info

C31_ColdReached ==
  /\ LoopStartStepped /\ last.cnt < LOOP_THRESHOLD /\ pc = prev.s.pc + 5
  /\ count[last.site] = last.cnt + 1
C31_MarkedReached ==
  /\ LoopStartStepped /\ last.dead /\ last.cnt >= LOOP_THRESHOLD
  /\ pc = prev.s.pc + 5 /\ count = prev.s.count


\* ------------------------------------------- calls inside compiled regions
\* the step ran code generation for a function or a loop
Compiled == prev.op \in {"CALL", "LOOP_START"} /\ last.gen
\* the region it was run for
CompiledIseq == FuncIseq(last.site[1])
CompiledBgn == IF last.kind = "func" THEN 1 ELSE LoopBgn
CompiledEnd == IF last.kind = "func" THEN Len(CompiledIseq) ELSE LoopEnd
\* the names the region calls: those of a GET_NAME that a CALL follows
RECURSIVE CalledNames(_, _, _)
CalledNames(iseq, at, end) ==
  IF at >= end THEN {}
  ELSE LET inst == At(iseq, at)
       IN (IF inst.op = "GET_NAME" /\ At(iseq, at + 5).op = "CALL"
           THEN {ConstString[inst.arg]} ELSE {})
          \cup CalledNames(iseq, at + get_inst_size(inst.op), end)
\* the user functions these names were bound to when the step began
Callees ==
  {name \in CalledNames(CompiledIseq, CompiledBgn, CompiledEnd) :
     /\ IsSome(get_value(prev.s.callobjs, GlobalScope, name))
     /\ Unwrap(get_value(prev.s.callobjs, GlobalScope, name)).t = "Function"}
CalleeId(name) == Unwrap(get_value(prev.s.callobjs, GlobalScope, name)).v
\* the callee is the function being compiled / had a native entry
IsSelf(name) == last.kind = "func" /\ CalleeId(name) = last.site[1]
HadEntry(name) ==
  /\ Has(prev.s.func_info, CalleeId(name))
  /\ IsSome(prev.s.func_info[CalleeId(name)].llvm_func)
\* what gen_body was given as func_id and as the function being generated
GenFuncId == IF last.kind = "func" THEN last.site[1] ELSE LoopBgn
GenFunc ==
  IF last.kind = "func"
  THEN NewFunc(prev.s.function_return_types, last.site[1], Len(last.args))
  ELSE [bgn |-> LoopBgn, end |-> LoopEnd]
\* the entry gen_body took for the callee, and whether it is the callee's own
Target(name) ==
  GenGetNameOuter(prev.s.callobjs, GlobalScope, prev.s.func_info, GenFuncId, GenFunc, name)
TargetsOwnEntry(name) ==
  Target(name).res = "Ok" =>
    /\ "func_id" \in DOMAIN Target(name).e.f
    /\ Target(name).e.f.func_id = CalleeId(name)
CompileSucceeded == status = "ok" /\ IsSome(SiteStored(last))
CompileFailed == status = "ok" /\ SiteDead(last) /\ ~IsSome(SiteStored(last))

\* C32: the compilation of a region that calls a user function succeeds only
\* when the callee is the function being compiled or already has a native
\* entry, the call it emits targets the callee's own native entry, and in
\* every other case the compilation fails.
C32_CallsOnlyCompiledCallees ==
  (Compiled /\ Callees # {}) =>
    /\ CompileSucceeded => \A name \in Callees : IsSelf(name) \/ HadEntry(name)
    /\ \A name \in Callees : TargetsOwnEntry(name)
    /\ (\E name \in Callees : ~IsSelf(name) /\ ~HadEntry(name)) => CompileFailed

\* the loop of lc starts at 22 and calls E, whose FuncId is 22: gen_body took
\* the loop function for the callee, and the process aborted
C32_LoopFunctionTakenForCalleeReached ==
  /\ Compiled /\ last.kind = "loop" /\ last.site = <<38, 22>>
  /\ Callees = {"E"} /\ ~HadEntry("E")
  /\ Target("E").res = "Ok" /\ Target("E").e.f = [bgn |-> 22, end |-> 77]
  /\ status = "panic"
\* the same with a callee whose FuncId differs from the position of the loop
C32_CalleeKeyedApart ==
  (Compiled /\ Callees # {} /\ \A name \in Callees : CalleeId(name) # GenFuncId \/ IsSelf(name)) =>
    /\ CompileSucceeded => \A name \in Callees : IsSelf(name) \/ HadEntry(name)
    /\ \A name \in Callees : TargetsOwnEntry(name)
    /\ (\E name \in Callees : ~IsSelf(name) /\ ~HadEntry(name)) => CompileFailed
\* rc compiled with its call of itself
C32_SelfCallCompiledReached ==
  /\ Compiled /\ last.site = <<36, 0>> /\ Callees = {"rc"} /\ IsSelf("rc")
  /\ CompileSucceeded /\ last.path = "native"
\* two, and the loop of lo, compiled once one had a native entry
C32_CalleeWithEntryReached ==
  /\ Compiled /\ last.site = <<35, 0>> /\ HadEntry("one") /\ CompileSucceeded
  /\ last.path = "native"
C32_LoopCalleeWithEntryReached ==
  /\ Compiled /\ last.site = <<37, 8>> /\ HadEntry("one") /\ CompileSucceeded
  /\ last.path = "native"
\* and marked when one had none
C32_CalleeWithoutEntryReached ==
  /\ Compiled /\ last.site = <<35, 0>> /\ ~HadEntry("one") /\ CompileFailed
C32_LoopCalleeWithoutEntryReached ==
  /\ Compiled /\ last.site = <<37, 8>> /\ ~HadEntry("one") /\ CompileFailed


\* ------------------------------------------------- the guard of jmp_if_false
\* the step was a JMP_IF_FALSE on a Number or a Bool
JumpStepped == prev.op = "JMP_IF_FALSE" /\ PrevTop.t \in {"Number", "Bool"}
\* the interpreter took the jump
InterpJumps == pc = prev.s.pc + 5 + PrevInst.arg
\* the branch gen_body emits for the same condition, held at its machine type,
\* goes to the destination of the jump
NativeJumps == ~val_to_bool(MVal(to_llvmty(PrevTop.t), PrevTop.v))

\* C33: on a condition that is a Number or a Bool, the interpreter's
\* jmp_if_false takes the jump in exactly the cases in which the generated
\* branch takes it: Bool(false), and a Number equal to 0.0.
C33_InterpreterAndNativeJumpAlike ==
  JumpStepped => (InterpJumps <=> NativeJumps)

\* f(0): the interpreter falls through on the Number 0, the generated branch
\* jumps
C33_ZeroFallsThroughReached ==
  /\ JumpStepped /\ PrevTop = Number(0) /\ ~InterpJumps /\ NativeJumps
  /\ pc = prev.s.pc + 5
\* on a Bool, and on a Number other than 0, both agree
C33_BoolAndNonZeroJumpAlike ==
  (JumpStepped /\ PrevTop # Number(0)) => (InterpJumps <=> NativeJumps)
C33_BoolFalseJumpsReached ==
  JumpStepped /\ PrevTop = Bool(FALSE) /\ InterpJumps /\ NativeJumps
C33_NonZeroFallsThroughReached ==
  JumpStepped /\ PrevTop = Number(1) /\ ~InterpJumps /\ ~NativeJumps


\* ------------------------------------------------------- bitwise opcodes
\* An integer-valued Number within the range of i64 is held here as its 64
\* bits in two's complement, least significant first; the conversions keep
\* the widths of the code (i64, u64, i32, u32, the 5 bits of a shift count).
W64 == 64
W32 == 32
RECURSIVE NatBits(_, _)
NatBits(n, w) == IF w = 0 THEN <<>> ELSE <<n % 2>> \o NatBits(n \div 2, w - 1)
Zeros(w) == [i \in 1..w |-> 0]
NotBits(b) == [i \in 1..Len(b) |-> 1 - b[i]]
\* the Number n, for an n the model checker can write
Wide(n) == IF n >= 0 THEN NatBits(n, W64) ELSE NotBits(NatBits(0 - n - 1, W64))
\* the Number that is the sum of 2^k for k in S
PowSum(S) == [i \in 1..W64 |-> IF i - 1 \in S THEN 1 ELSE 0]
SExt(b, w) == b \o [i \in 1..(w - Len(b)) |-> b[Len(b)]]
ZExt(b, w) == b \o Zeros(w - Len(b))
Low(b, w) == SubSeq(b, 1, w)
\* whether the Number lies in the range of i32
InI32(x) == SExt(Low(x, W32), W64) = x
AndBits(a, b) == [i \in 1..Len(a) |-> a[i] * b[i]]
OrBits(a, b) == [i \in 1..Len(a) |-> IF a[i] + b[i] > 0 THEN 1 ELSE 0]
XorBits(a, b) == [i \in 1..Len(a) |-> (a[i] + b[i]) % 2]
ShlBits(b, k) == Zeros(k) \o SubSeq(b, 1, Len(b) - k)
LShrBits(b, k) == SubSeq(b, k + 1, Len(b)) \o Zeros(k)
AShrBits(b, k) == SubSeq(b, k + 1, Len(b)) \o [i \in 1..k |-> b[Len(b)]]
\* a shift count: in range when below the width, and its five low bits
CountInRange(c) == \A i \in 6..Len(c) : c[i] = 0
Low5(c) == c[1] + 2 * c[2] + 4 * c[3] + 8 * c[4] + 16 * c[5]

\* `l as i64 as i32`: the 32 low bits
I32Of(x) == Low(x, W32)
\* `l as u64 as u32`: the cast of a negative double to u64 is out of range;
\* it gives 0 where the cast saturates (sat) and the bits of the i64
\* otherwise
U32Of(x, sat) == IF x[W64] = 1 /\ sat THEN Zeros(W32) ELSE Low(x, W32)

\* the interpreter's handlers: and, or, xor
BitwiseOp(s, f(_, _)) ==
  LET rhs == s.stack[Len(s.stack)]
      lhs == s.stack[Len(s.stack) - 1]
      s1 == [s EXCEPT !.pc = @ + 1, !.stack = PopN(@, 2)]
  IN IF lhs.t = "Number" /\ rhs.t = "Number"
     THEN [s1 EXCEPT !.stack = Append(@, Number(SExt(f(I32Of(lhs.v), I32Of(rhs.v)), W64)))]
     ELSE Fail(s1, "Unimplemented")
and(s) == BitwiseOp(s, AndBits)
or(s) == BitwiseOp(s, OrBits)
xor(s) == BitwiseOp(s, XorBits)
\* shl, shr: `<<` and `>>` of i32 by an i32; a count outside 0..31 is an
\* arithmetic overflow, a panic where overflow is checked (checked) and the
\* count taken modulo 32 where it is not
ShiftOp(s, f(_, _), checked) ==
  LET rhs == s.stack[Len(s.stack)]
      lhs == s.stack[Len(s.stack) - 1]
      s1 == [s EXCEPT !.pc = @ + 1, !.stack = PopN(@, 2)]
  IN IF lhs.t = "Number" /\ rhs.t = "Number"
     THEN IF checked /\ ~CountInRange(I32Of(rhs.v)) THEN Fail(s1, "panic")
          ELSE [s1 EXCEPT !.stack =
                  Append(@, Number(SExt(f(I32Of(lhs.v), Low5(I32Of(rhs.v))), W64)))]
     ELSE Fail(s1, "Unimplemented")
shl(s, checked) == ShiftOp(s, ShlBits, checked)
shr(s, checked) == ShiftOp(s, AShrBits, checked)
\* zfshr: `>>` of u32 by a u32, widened to a double as unsigned
zfshr(s, checked, sat) ==
  LET rhs == s.stack[Len(s.stack)]
      lhs == s.stack[Len(s.stack) - 1]
      s1 == [s EXCEPT !.pc = @ + 1, !.stack = PopN(@, 2)]
  IN IF lhs.t = "Number" /\ rhs.t = "Number"
     THEN IF checked /\ ~CountInRange(U32Of(rhs.v, sat)) THEN Fail(s1, "panic")
          ELSE [s1 EXCEPT !.stack =
                  Append(@, Number(ZExt(LShrBits(U32Of(lhs.v, sat),
                                                 Low5(U32Of(rhs.v, sat))), W64)))]
     ELSE Fail(s1, "Unimplemented")

\* what gen_body emits.  FPToSI of a double to i32 is defined for the values
\* in the range of i32 and poison outside it: the instruction gives the
\* smallest i32 on x86 and the nearest bound on arm.
Archs == {"x86", "arm"}
MinI32 == Zeros(W32 - 1) \o <<1>>
MaxI32 == [i \in 1..(W32 - 1) |-> 1] \o <<0>>
FPToSI32(x, arch) ==
  IF InI32(x) THEN Low(x, W32)
  ELSE IF arch = "x86" \/ x[W64] = 1 THEN MinI32 ELSE MaxI32
\* AND, OR, XOR: FPToSI to i32, the operation, SIToFP
GenBitwise(f(_, _), l, r, arch) == SExt(f(FPToSI32(l, arch), FPToSI32(r, arch)), W64)
\* SHL, SHR, ZFSHR: FPToSI to i64, truncation to i32, the shift (the machine
\* takes the count modulo 32), SIToFP
GenShift(f(_, _), l, r) == SExt(f(Low(l, W32), Low5(Low(r, W32))), W64)
GenBitOp(op, l, r, arch) ==
  CASE op = "AND" -> GenBitwise(AndBits, l, r, arch)
    [] op = "OR" -> GenBitwise(OrBits, l, r, arch)
    [] op = "XOR" -> GenBitwise(XorBits, l, r, arch)
    [] op = "SHL" -> GenShift(ShlBits, l, r)
    [] op = "SHR" -> GenShift(AShrBits, l, r)
    [] op = "ZFSHR" -> GenShift(LShrBits, l, r)

\* The programs `l op r` over the operands: small numbers, negative numbers,
\* the bounds of i32, and numbers beyond them (2^31, 2^32 + 1, -2^32 - 2)
Operands ==
  {Wide(0), Wide(1), Wide(5), Wide(31), Wide(0 - 1), Wide(0 - 8),
   Wide(2147483647), NotBits(Wide(2147483647)),
   PowSum({31}), PowSum({0, 32}), NotBits(PowSum({0, 32}))}
BitOps == {"AND", "OR", "XOR", "SHL", "SHR", "ZFSHR"}

BitInit ==
  /\ \E l \in Operands, r \in Operands :
       Holds([VMNew(EmptyMap) EXCEPT !.stack = <<Number(l), Number(r)>>])
  /\ last = NoEntry /\ gen_calls = <<>>
  /\ prev = NoStep /\ calls = <<>>

BitStep(op, t) ==
  /\ status = "ok" /\ Len(stack) = 2
  /\ Commit(t)
  /\ Stepped(op, NoCall)
  /\ UNCHANGED <<last, gen_calls, calls>>
And == BitStep("AND", and(State))
Or == BitStep("OR", or(State))
Xor == BitStep("XOR", xor(State))
Shl == \E checked \in BOOLEAN : BitStep("SHL", shl(State, checked))
Shr == \E checked \in BOOLEAN : BitStep("SHR", shr(State, checked))
Zfshr == \E checked \in BOOLEAN, sat \in BOOLEAN : BitStep("ZFSHR", zfshr(State, checked, sat))

BitNext == And \/ Or \/ Xor \/ Shl \/ Shr \/ Zfshr
BitSpec == BitInit /\ [][BitNext]_vars

\* the operands of the latest step and what it pushed
BitStepped == prev.op \in BitOps /\ status = "ok"
Lhs == prev.s.stack[1].v
Rhs == prev.s.stack[2].v
Pushed == stack[1].v

\* C34: and, or, xor, shl, shr and zfshr on integer-valued Numbers, also
\* outside the range of i32 and negative, give natively the same Number as
\* interpreted.
C34_NativeBitwiseMatchesInterpreter ==
  BitStepped => \A arch \in Archs : GenBitOp(prev.op, Lhs, Rhs, arch) = Pushed

\* -1 >>> 0 is 0 or 4294967295 interpreted and -1 natively
C34_ZfshrNegativeReached ==
  /\ BitStepped /\ prev.op = "ZFSHR" /\ Lhs = Wide(0 - 1) /\ Rhs = Wide(0)
  /\ Pushed \in {Wide(0), PowSum(0..31)}
  /\ \A arch \in Archs : GenBitOp("ZFSHR", Lhs, Rhs, arch) = Wide(0 - 1)
\* 2^31 >>> 0 is 2^31 interpreted and -2^31 natively
C34_ZfshrBeyondI32Reached ==
  /\ BitStepped /\ prev.op = "ZFSHR" /\ Lhs = PowSum({31}) /\ Rhs = Wide(0)
  /\ Pushed = PowSum({31})
  /\ \A arch \in Archs : GenBitOp("ZFSHR", Lhs, Rhs, arch) = NotBits(Wide(2147483647))
\* (2^32 + 1) & 5 is 1 interpreted and 0 or 5 natively
C34_AndBeyondI32Reached ==
  /\ BitStepped /\ prev.op = "AND" /\ Lhs = PowSum({0, 32}) /\ Rhs = Wide(5)
  /\ Pushed = Wide(1)
  /\ GenBitOp("AND", Lhs, Rhs, "x86") = Wide(0)
  /\ GenBitOp("AND", Lhs, Rhs, "arm") = Wide(5)
\* and, or, xor agree on operands in the range of i32; shl and shr agree on
\* every operand; zfshr agrees when the operand is not negative and the
\* result is below 2^31
C34_AgreeWithinRange ==
  BitStepped =>
    /\ (prev.op \in {"AND", "OR", "XOR"} /\ InI32(Lhs) /\ InI32(Rhs)) =>
         \A arch \in Archs : GenBitOp(prev.op, Lhs, Rhs, arch) = Pushed
    /\ prev.op \in {"SHL", "SHR"} =>
         \A arch \in Archs : GenBitOp(prev.op, Lhs, Rhs, arch) = Pushed
    /\ (prev.op = "ZFSHR" /\ Lhs[W64] = 0 /\ Rhs[W64] = 0 /\ Pushed[W32] = 0) =>
         \A arch \in Archs : GenBitOp(prev.op, Lhs, Rhs, arch) = Pushed
C34_AgreeReached ==
  /\ BitStepped /\ prev.op = "SHL" /\ Lhs = PowSum({0, 32}) /\ Rhs = Wide(31)
  /\ Pushed = NotBits(Wide(2147483647))
  /\ GenBitOp("SHL", Lhs, Rhs, "x86") = Pushed


\* the latest step was a call that ran a function's native entry to its return
NativeCallReturned ==
  /\ prev.op = "CALL" /\ last.kind = "func" /\ last.path = "native"
  /\ IsSome(last.used) /\ status = "ok" /\ stack # <<>>
\* the type run_llvm_func boxed the result with: the recorded return type at
\* the call (code generation records none), Number when none is recorded
BoxedAs ==
  IF Has(prev.s.function_return_types, last.site[1])
  THEN prev.s.function_return_types[last.site[1]] ELSE "Number"

\* C35: the value pushed after a native call is boxed with the return type
\* the native code of the function was generated with, whatever an
\* interpreted call of the function returned since.
C35_BoxedWithGeneratedReturnType ==
  NativeCallReturned =>
    /\ BoxedAs = Unwrap(last.used).ret
    /\ Top(State).t = Unwrap(last.used).ret

\* a native entry generated as returning a Number has its result boxed as a
\* Bool, after an interpreted call of the function returned a Bool
C35_ReboxedReached ==
  /\ NativeCallReturned
  /\ Unwrap(last.used).ret = "Number" /\ BoxedAs = "Bool" /\ Top(State).t = "Bool"
\* as long as the recorded return type is the one of code generation, the
\* value is boxed with it
C35_BoxedWithRecordedType ==
  NativeCallReturned => Top(State).t = BoxedAs
C35_SameTypeReached ==
  /\ NativeCallReturned /\ ~last.gen
  /\ BoxedAs = Unwrap(last.used).ret /\ Top(State).t = "Number"


\* the latest call ran the native entry of its callee
NativeEntryInvoked == last.kind = "func" /\ last.path = "native" /\ IsSome(last.used)

\* C36: a native entry is invoked with exactly the number of arguments it
\* was compiled for.
C36_InvokedWithCompiledArgc ==
  NativeEntryInvoked => Len(last.args) = Unwrap(last.used).argc

\* an entry compiled for two parameters is invoked with one argument, and
\* one compiled for one parameter with two
C36_FewerArgumentsReached ==
  /\ NativeEntryInvoked /\ ~last.gen /\ status = "ok"
  /\ Unwrap(last.used).argc = 2 /\ Len(last.args) = 1
C36_MoreArgumentsReached ==
  /\ NativeEntryInvoked /\ ~last.gen /\ status = "ok"
  /\ Unwrap(last.used).argc = 1 /\ Len(last.args) = 2
\* the call that generates the entry invokes it with the number of arguments
\* it was generated for, and a stored entry is invoked whatever the number
C36_GeneratingCallMatches ==
  NativeEntryInvoked =>
    /\ last.gen => Len(last.args) = Unwrap(last.used).argc
    /\ ~last.gen => last.used = last.entry
C36_GeneratedReached ==
  /\ NativeEntryInvoked /\ last.gen /\ Len(last.args) = 2 /\ Unwrap(last.used).argc = 2


\* a call or construct that completed within its step (a native entry, a
\* builtin), and one that completed by the RETURN of the frame it entered
CompletedInStep ==
  /\ prev.op \in {"CALL", "CONSTRUCT"} /\ status = "ok"
  /\ Len(frames) = Len(prev.s.frames)
CompletedByReturn == prev.op = "RETURN" /\ status = "ok" /\ prev.call # NoCall

\* C37: when a call or construct has completed without error, the scope stack
\* and the history are as high, and cur_func_id is the same, as before the
\* call opcode; the frame the call entered has been popped, and no other.
C37_CallRestoresFrame ==
  /\ CompletedInStep =>
       /\ Len(scope) = Len(prev.s.scope)
       /\ Len(history) = Len(prev.s.history)
       /\ cur_func_id = prev.s.cur_func_id
  /\ CompletedByReturn =>
       /\ Len(scope) = prev.call.scope
       /\ Len(history) = prev.call.history
       /\ cur_func_id = prev.call.func
       /\ Len(frames) = prev.call.frames
       /\ frames = SubSeq(prev.s.frames, 1, Len(prev.s.frames) - 1)

\* a call inside a function returned, a construct returned, a native call
\* and a builtin call completed
C37_Witness ==
  /\ CompletedByReturn /\ prev.call.callee.t = "Function"
  /\ ~IsSome(prev.s.frames[Len(prev.s.frames)].ctor)
  /\ prev.call.scope > 1 /\ prev.call.history > 0 /\ prev.call.func # 0
  /\ prev.s.cur_func_id # prev.call.func
C37_ConstructReturnedReached ==
  /\ CompletedByReturn /\ IsSome(prev.s.frames[Len(prev.s.frames)].ctor)
  /\ prev.call.history > 0 /\ prev.s.cur_func_id # prev.call.func
C37_NativeCallReached ==
  /\ CompletedInStep /\ prev.op = "CALL" /\ last.path = "native"
  /\ prev.call.callee.t = "Function" /\ Len(prev.s.scope) > 1
C37_BuiltinCallReached ==
  /\ CompletedInStep /\ prev.call.callee.t = "BuiltinFunction"


\* the step assigned to the length of an array
AssignedLength ==
  /\ prev.op = "SET_MEMBER" /\ status = "ok" /\ PrevParent.t = "Array"
  /\ PrevMember.t = "String" /\ StringTable[PrevMember.v] = "length"

C38_ShrunkReached ==
  /\ AssignedLength /\ PrevValue = Number(1)
  /\ arrays[PrevParent.v].length = 1 /\ Len(arrays[PrevParent.v].elems) = 4

\* C39: after an assignment of a smaller length k to an array, every index
\* i >= k reads Undefined until it is written, also once later stores have
\* made the length greater than i again.
C39_CutSlotsReadUndefined ==
  (ReadAtIndex /\ <<PrevParent.v, PrevMember.v>> \in prev.cut) =>
    stack[Len(stack)] = Undefined

\* after p[1] = 9, p.length = 1 and p[2] = y, p[1] reads 9
C39_StaleReadReached ==
  /\ ReadAtIndex /\ <<PrevParent.v, PrevMember.v>> \in prev.cut
  /\ PrevMember.v = 1 /\ prev.s.arrays[PrevParent.v].length = 3
  /\ stack[Len(stack)] = Number(9)
\* a cut slot reads Undefined as long as the length stays at or below it,
\* and always when it holds padding
C39_CutSlotsBeyondLengthReadUndefined ==
  (ReadAtIndex /\ <<PrevParent.v, PrevMember.v>> \in prev.cut
   /\ (PrevMember.v >= prev.s.arrays[PrevParent.v].length \/ ElemBefore(PrevMember.v) = Empty))
    => stack[Len(stack)] = Undefined
C39_CutSlotBeyondLengthReached ==
  /\ ReadAtIndex /\ <<PrevParent.v, PrevMember.v>> \in prev.cut
  /\ PrevMember.v >= prev.s.arrays[PrevParent.v].length
  /\ ElemBefore(PrevMember.v) # Empty /\ stack[Len(stack)] = Undefined


\* the step was get_member
GotMemberStep == prev.op = "GET_MEMBER" /\ prev.s.status = "ok"
\* an integer index at or beyond the end of a String, the argument of a
\* formal parameter that got none, a key that is a function
StringIndexOutOfRange ==
  /\ PrevParent.t = "String" /\ PrevMember.t = "Number"
  /\ PrevMember.v >= Len(StringTable[PrevParent.v])
UnboundFormalRead ==
  /\ PrevParent = Arguments /\ PrevMember.t = "Number" /\ PrevMember.v >= 0
  /\ PrevMember.v < Len(prev.s.callobjs[PrevScope].params)
  /\ get_value(prev.s.callobjs, PrevScope,
               prev.s.callobjs[PrevScope].params[PrevMember.v + 1][1]) = None
UnprintableKey ==
  /\ PrevMember.t \notin Printable
  /\ \/ PrevParent.t \in {"Object", "Function", "BuiltinFunction"}
     \/ PrevParent.t = "Array"

\* C40: get_member is total: it pops the key and the parent, pushes one
\* value and does not abort, whatever the parent and the key.
C40_GetMemberTotal ==
  GotMemberStep =>
    /\ status = "ok"
    /\ Len(stack) = Len(prev.s.stack) - 1
    /\ SubSeq(stack, 1, Len(stack) - 1) = SubSeq(prev.s.stack, 1, Len(prev.s.stack) - 2)

\* a key sought along a __proto__ chain that is a cycle and has no such key
EndlessLookup ==
  /\ PrevMember.t \in Printable /\ HasMap(PrevParent)
  /\ ~(PrevParent.t = "Array" /\ PrevMember.t = "Number" /\ PrevMember.v >= 0)
  /\ ~(PrevParent.t = "Array" /\ PrevMember.t = "String"
       /\ StringTable[PrevMember.v] = "length")
  /\ ~Acyclic(prev.s, MapRef(PrevParent))
  /\ \A i \in 1..Len(ProtoChain(prev.s, MapRef(PrevParent), HeapSize(prev.s))) :
       ~Has(ProtoChain(prev.s, MapRef(PrevParent), HeapSize(prev.s))[i],
            to_string(PrevMember))

\* "x"[1], arguments[1] in ap(x), and o[D] abort the process
C40_StringIndexAbortsReached ==
  GotMemberStep /\ StringIndexOutOfRange /\ PrevMember.v = 1 /\ status = "panic"
C40_UnboundFormalAbortsReached ==
  GotMemberStep /\ UnboundFormalRead /\ status = "panic"
C40_FunctionKeyAbortsReached ==
  /\ GotMemberStep /\ PrevParent.t = "Object" /\ PrevMember.t = "Function"
  /\ status = "panic"
\* get_member aborts, or does not return, in these cases only
C40_TotalButFourCases ==
  GotMemberStep =>
    IF StringIndexOutOfRange \/ UnboundFormalRead \/ UnprintableKey \/ EndlessLookup
    THEN status = "panic"
    ELSE /\ status = "ok"
         /\ Len(stack) = Len(prev.s.stack) - 1
         /\ SubSeq(stack, 1, Len(stack) - 1) = SubSeq(prev.s.stack, 1, Len(prev.s.stack) - 2)
\* a negative index of a String reads its first character; a Bool key and a
\* key on a Number read Undefined
C40_NegativeStringIndexReached ==
  /\ GotMemberStep /\ PrevParent.t = "String" /\ PrevMember = Number(0 - 1)
  /\ status = "ok" /\ stack[Len(stack)] = PrevParent
C40_BoolKeyReached ==
  /\ GotMemberStep /\ PrevParent.t = "Object" /\ PrevMember.t = "Bool"
  /\ status = "ok" /\ stack[Len(stack)] = Undefined
C40_FunctionKeyOnNumberReached ==
  /\ GotMemberStep /\ PrevParent.t = "Number" /\ PrevMember.t = "Function"
  /\ status = "ok" /\ stack[Len(stack)] = Undefined
====
